---- MODULE Spec2Model ----
(***************************************************************************)
(* Model of the HICV availability scanner (hicv_original_working.py and    *)
(* hicv_simple_monthly.py): the control-interaction loops of the location  *)
(* and unit-size panels, the calendar range picker, the confirmation flow, *)
(* the results extractor and the top-level sequencing of both scripts.     *)
(* The page is the environment: what a click does and what a poll observes *)
(* is chosen nondeterministically.                                         *)
(***************************************************************************)
EXTENDS Integers, Sequences, FiniteSets, TLC

(***************************************************************************)
(* Bounds of the model.                                                    *)
(***************************************************************************)
\* largest number of options rendered under the Florida header
MaxK == 2
\* largest number of options rendered before the header / after the next header
MaxOther == 1
\* how many times in a row a reconcile step is run
MaxRounds == 2
\* longest text handed to the points parser
MaxTextLen == 5
\* largest number of elements on a results page
MaxCards == 3
\* number of months the calendar can show
MaxMonths == 3
\* largest value a guest counter displays
MaxGuests == 3
\* number of save_csv calls on one destination
MaxSaves == 3

(***************************************************************************)
(* Program constants.                                                      *)
(***************************************************************************)
\* range(6) in open_resorts_dropdown
OPEN_ATTEMPTS == 6
\* range(60): scroll steps looking for the Florida header
HEADER_SCROLLS == 60
\* range(80): rescans collecting the Florida options
REVEAL_SCANS == 80
\* range(12): polls of aria-selected after a click
STATE_POLLS == 12

VARIABLES
    pc,             \* position of the single thread of control
    err,            \* the exception that aborted the run, or "none"
    debug,          \* diagnostic artefacts written so far (file stems)
    \* ---- open_resorts_dropdown
    attempt,        \* loop variable of the strategy loop
    tried,          \* strategies attempted so far, in order
    panel_open,     \* the listbox panel is visible
    \* ---- location panel (page state)
    items,          \* the li[role='option'] elements of the full list, in order
    rendered,       \* how many of them are in the DOM (lazy rendering)
    lazy,           \* page behaviour: does scrolling reveal more items
    sel,            \* aria-selected of each location option
    \* ---- select_all_florida_locations (locals)
    loop_i,         \* loop variable of the current range(...) loop
    found_florida,
    all_ids,
    has_next,
    todo,           \* for_ids not yet visited by the reconcile loop
    cur,            \* the option being reconciled
    newly_selected,
    confirmed,
    touched,        \* history: options that received a click or an injection
    injected,       \* history: options that received the direct state injection
    \* ---- set_unit_sizes
    desired_labels, \* argument of set_unit_sizes
    unit_sel,       \* aria-selected of the unit-size options
    unit_i,         \* index into options of the ensure_state call in progress
    final_selected, \* the list printed at the end of set_unit_sizes
    round,          \* how many times the reconcile step has completed
    first_result,   \* selection observed when the reconcile step first completed
    \* ---- points parsing
    txt,            \* the text handed to the parser
    pts,            \* the string it returned
    \* ---- results page (page state) and scrape_results
    date_range,     \* what extract_date_range returns on this page
    cards,          \* elements matched by the tier-1 card selector, in order
    blocks,         \* section/article elements that contain an h2, in order
    nodes,          \* elements whose text contains "points", in order
    rows,           \* rows collected by the tiers
    out,            \* the list scrape_results returns
    \* ---- calendar overlay (page state)
    cal_visible,    \* the range-picker overlay is visible
    months,         \* the months of the calendar: cells and enabled days
    cal_first,      \* the month shown in the first month block
    n_blocks,       \* page.locator("div.rdp-month").count()
    locator_eq,     \* what `==` on two Locator objects compares
    \* ---- pick_checkin_date (arguments and locals)
    target,         \* the month whose caption is target_caption
    day,            \* the check-in day
    target_mb,      \* block index, or -1 for None
    step,           \* loop variable of the month search
    start_mb,       \* argument of the _try_click_range call in progress
    try_no,         \* which _try_click_range call of pick_checkin_date it is
    clicks,         \* history: the day cells clicked, in order
    next_clicks,    \* history: clicks on the next-month control
    \* ---- finalize_dates_in_picker / click_confirm_dates
    done_clicked,   \* history: "no", or how Done was found when clicked
    confirm_seen,   \* finalize_dates_in_picker saw an enabled Confirm
    confirm_clicked, \* history: Confirm Dates was clicked while seen visible and enabled
    \* ---- the run
    script,         \* "member": scrape_availability_member, "simple": simple_monthly_scan
    stage,          \* the step of the run in progress
    trace,          \* history: calls and returns of the steps, in order
    shown,          \* the guest counters as the page displays them
    cur_count,      \* local cur of the counter loop
    tries,          \* local tries of set_counter
    nights_field,   \* content of #number-of-nights
    month_set,      \* a month was chosen in the month picker
    year_set,       \* a year was chosen in the year picker
    saved,          \* rows handed to the persistence step
    csv_file,       \* the CSV destination: whether it exists, and its lines
    \* ---- simple_monthly_scan
    days,           \* the number of days the user entered
    total_days,     \* get_days_in_month(month, year)
    checkin_day,    \* the loop variable of Step 7
    all_rows        \* rows collected over the days

ctlVars   == <<pc, err, debug>>
openVars  == <<attempt, tried, panel_open>>
pageVars  == <<items, rendered, lazy>>
locVars   == <<loop_i, found_florida, all_ids, has_next, todo, cur,
               newly_selected, confirmed>>
histVars  == <<touched, injected>>
unitVars  == <<desired_labels, unit_sel, unit_i, final_selected>>
roundVars == <<round, first_result>>
ptsVars   == <<txt, pts>>
resVars   == <<date_range, cards, blocks, nodes>>
rowVars   == <<rows, out>>

\* everything the panel code reads or writes, besides pc, err and debug
panelVars == <<openVars, pageVars, sel, locVars, histVars, unitVars, roundVars>>
\* everything the results code reads or writes, besides pc, err and debug
scrapeVars == <<ptsVars, resVars, rowVars>>

calPage   == <<cal_visible, months, cal_first, n_blocks, locator_eq>>
calArgs   == <<target, day>>
calLocals == <<target_mb, step, start_mb, try_no>>
calHist   == <<clicks, next_clicks>>
confVars  == <<done_clicked, confirm_seen, confirm_clicked>>
\* everything the calendar code reads or writes, besides pc, err and debug
calVars   == <<calPage, calArgs, calLocals, calHist, confVars>>

runCtl    == <<script, stage, trace>>
formVars  == <<shown, cur_count, tries, nights_field, month_set, year_set>>
\* everything the sequencing and the simple form steps read or write
simpleVars == <<days, total_days, checkin_day, all_rows>>
fileVars  == <<saved, csv_file>>
runVars   == <<runCtl, formVars, fileVars, simpleVars>>

\* what the panel code leaves alone
notPanel == <<scrapeVars, calVars, runVars>>
\* what the results code leaves alone
notScrape == <<panelVars, calVars, runVars>>
\* what the calendar code leaves alone
notCal == <<panelVars, scrapeVars, runVars>>
\* what the form steps leave alone
notForm == <<panelVars, scrapeVars, calVars, runCtl, fileVars, simpleVars>>

vars == <<ctlVars, panelVars, scrapeVars, calVars, runVars>>

(***************************************************************************)
(* Helpers.                                                                *)
(***************************************************************************)
Min(a, b) == IF a < b THEN a ELSE b
Max(a, b) == IF a > b THEN a ELSE b

\* write_debug(page, stem): both writes are wrapped in try/except
write_debug(stem) == debug \cup {stem}

(***************************************************************************)
(* open_resorts_dropdown                                                   *)
(***************************************************************************)
\* variant: the forced click is tried before the native click
Strategy_force_first(a) ==
    CASE a = 0 -> "force_click"
      [] a = 1 -> "click"
      [] a = 2 -> "dblclick"
      [] a = 3 -> "focus_enter"
      [] a = 4 -> "focus_space"
      [] OTHER -> "dispatch_click"

\* the action taken on loop iteration `a` (the if/elif chain)
Strategy(a) ==
    CASE a = 0 -> "click"
      [] a = 1 -> "force_click"
      [] a = 2 -> "dblclick"
      [] a = 3 -> "focus_enter"
      [] a = 4 -> "focus_space"
      [] OTHER -> "dispatch_click"

\* variant: the function gives up after the first strategy that failed
open_failed_early ==
    /\ pc = "open_dropdown"
    /\ attempt >= 1
    /\ debug' = write_debug("open_dropdown_failed")
    /\ err' = "TimeoutError: Location listbox did not appear"
    /\ pc' = "aborted"
    /\ UNCHANGED <<openVars, pageVars, sel, locVars, histVars, unitVars, roundVars,
                   notPanel>>

\* one iteration of `for attempt in range(6)`: the action either raises or
\* not, then panel.wait_for either sees the panel or times out.  The first
\* iteration comes after btn.wait_for(state="visible"), which raises when the
\* dropdown button does not show up
open_attempt ==
    /\ pc = "open_dropdown"
    /\ attempt < OPEN_ATTEMPTS
    /\ \E btn_visible \in BOOLEAN, acted \in BOOLEAN, visible \in BOOLEAN :
          IF attempt = 0 /\ ~btn_visible
          THEN /\ err' = "TimeoutError: btn.wait_for"
               /\ pc' = "aborted"
               /\ UNCHANGED <<tried, panel_open, attempt>>
          ELSE /\ tried' = Append(tried, Strategy(attempt))
               /\ err' = err
               /\ IF acted /\ visible
                  THEN /\ panel_open' = TRUE
                       /\ pc' = "find_florida"
                       /\ attempt' = attempt
                  ELSE /\ panel_open' = panel_open
                       /\ pc' = pc
                       /\ attempt' = attempt + 1
    /\ UNCHANGED <<debug, pageVars, sel, locVars, histVars, unitVars, roundVars,
                   notPanel>>

\* the loop ran out: write_debug, raise TimeoutError
open_failed ==
    /\ pc = "open_dropdown"
    /\ attempt = OPEN_ATTEMPTS
    /\ debug' = write_debug("open_dropdown_failed")
    /\ err' = "TimeoutError: Location listbox did not appear"
    /\ pc' = "aborted"
    /\ UNCHANGED <<openVars, pageVars, sel, locVars, histVars, unitVars, roundVars,
                   notPanel>>

(***************************************************************************)
(* The location list.                                                      *)
(***************************************************************************)
FLORIDA_HEADER == "list-item-Florida-id"

Group(id)  == [kind |-> "group",  id |-> id]
Option(id) == [kind |-> "option", id |-> id]

\* the options rendered before the Florida header, under it, after the next header
BeforeIds  == <<"b1", "b2", "b3">>
FloridaIds == <<"f1", "f2", "f3", "f4", "f5", "f6">>
AfterIds   == <<"a1", "a2", "a3">>

Options(ids, n) == [i \in 1..n |-> Option(ids[i])]

\* a list: a first group with nb options, then (if hasFl) the Florida header
\* with k options, then (if hasNext) another group header with na options
Layout(nb, hasFl, k, hasNext, na) ==
    <<Group("list-item-Alabama-id")>> \o Options(BeforeIds, nb)
    \o (IF hasFl THEN <<Group(FLORIDA_HEADER)>> \o Options(FloridaIds, k) ELSE <<>>)
    \o (IF hasNext THEN <<Group("list-item-Georgia-id")>> \o Options(AfterIds, na) ELSE <<>>)

Layouts ==
    { Layout(nb, hasFl, k, hasNext, na) :
        nb \in 0..MaxOther, hasFl \in BOOLEAN, k \in 0..MaxK,
        hasNext \in BOOLEAN, na \in 0..MaxOther }

OptionIdsOf(list) == { list[i].id : i \in { j \in 1..Len(list) : list[j].kind = "option" } }

\* the elements currently in the DOM
Dom == SubSeq(items, 1, rendered)

\* el.scrollTop = ...: scrolling the panel may make the list render more items
Scrolled == IF lazy = "grows" THEN Min(rendered + 1, Len(items)) ELSE rendered

\* items.findIndex(li => li.id === id), 1-based, 0 when absent
FindIndex(list, id) ==
    IF \E i \in 1..Len(list) : list[i].id = id
    THEN CHOOSE i \in 1..Len(list) :
            /\ list[i].id = id
            /\ \A j \in 1..(i - 1) : list[j].id # id
    ELSE 0

\* variant: the loop does not stop at the next group header
RECURSIVE CollectFrom_no_break(_, _, _)
CollectFrom_no_break(list, i, ids) ==
    IF i > Len(list) THEN [ids |-> ids, has_next_group |-> FALSE]
    ELSE IF list[i].kind = "group"
         THEN [ids |-> CollectFrom_no_break(list, i + 1, ids).ids, has_next_group |-> TRUE]
    ELSE CollectFrom_no_break(list, i + 1, ids \cup {list[i].id})

\* the for loop of the page script, from index i on
RECURSIVE CollectFrom(_, _, _)
CollectFrom(list, i, ids) ==
    IF i > Len(list) THEN [ids |-> ids, has_next_group |-> FALSE]
    ELSE IF list[i].kind = "group" THEN [ids |-> ids, has_next_group |-> TRUE]
    ELSE CollectFrom(list, i + 1, ids \cup {list[i].id})

_collect_florida_ids_from_dom(list) ==
    LET startIdx == FindIndex(list, FLORIDA_HEADER)
    IN  IF startIdx = 0 THEN [ids |-> {}, has_next_group |-> FALSE]
        ELSE CollectFrom(list, startIdx + 1, {})

(***************************************************************************)
(* select_all_florida_locations                                            *)
(***************************************************************************)
\* one iteration of `for _ in range(60)`: look for the header, else scroll
find_florida_step ==
    /\ pc = "find_florida"
    /\ loop_i < HEADER_SCROLLS
    /\ IF FindIndex(Dom, FLORIDA_HEADER) > 0
       THEN /\ found_florida' = TRUE
            /\ pc' = "reveal"
            /\ loop_i' = 0
            /\ rendered' = rendered
       ELSE /\ rendered' = Scrolled
            /\ loop_i' = loop_i + 1
            /\ UNCHANGED <<found_florida, pc>>
    /\ UNCHANGED <<err, debug, openVars, items, lazy, sel, all_ids, has_next, todo,
                   cur, newly_selected, confirmed, histVars, unitVars, roundVars,
                   notPanel>>

\* the loop ended without the header: write_debug, raise
find_florida_failed ==
    /\ pc = "find_florida"
    /\ loop_i = HEADER_SCROLLS
    /\ debug' = write_debug("location_panel_no_florida")
    /\ err' = "Exception: Couldn't find the Florida group header"
    /\ pc' = "aborted"
    /\ UNCHANGED <<openVars, pageVars, sel, locVars, histVars, unitVars, roundVars,
                   notPanel>>

\* one iteration of `for _ in range(80)`: snapshot, accumulate, break or scroll
reveal_step ==
    /\ pc = "reveal"
    /\ loop_i < REVEAL_SCANS
    /\ LET snap == _collect_florida_ids_from_dom(Dom)
       IN  /\ all_ids' = all_ids \cup snap.ids
           /\ has_next' = snap.has_next_group
           /\ IF snap.has_next_group /\ (all_ids \cup snap.ids) # {}
              THEN /\ pc' = "reveal_done"
                   /\ UNCHANGED <<rendered, loop_i>>
              ELSE /\ rendered' = Scrolled
                   /\ loop_i' = loop_i + 1
                   /\ pc' = pc
    /\ UNCHANGED <<err, debug, openVars, items, lazy, sel, found_florida, todo, cur,
                   newly_selected, confirmed, histVars, unitVars, roundVars,
                   notPanel>>

\* variant: an empty option set is handed to the reconcile loop
reveal_check_goes_on ==
    /\ \/ pc = "reveal_done"
       \/ pc = "reveal" /\ loop_i = REVEAL_SCANS
    /\ todo' = all_ids
    /\ newly_selected' = 0
    /\ pc' = "fl_loop"
    /\ UNCHANGED <<err, debug, openVars, pageVars, sel, loop_i, found_florida, all_ids,
                   has_next, cur, confirmed, histVars, unitVars, roundVars,
                   notPanel>>

\* for_ids = list(all_ids); raise if empty, else start the reconcile loop
reveal_check ==
    /\ \/ pc = "reveal_done"
       \/ pc = "reveal" /\ loop_i = REVEAL_SCANS
    /\ IF all_ids = {}
       THEN /\ debug' = write_debug("location_panel_after")
            /\ err' = "Exception: Florida group found, but no Florida options were rendered"
            /\ pc' = "aborted"
            /\ UNCHANGED <<todo, newly_selected>>
       ELSE /\ todo' = all_ids
            /\ newly_selected' = 0
            /\ pc' = "fl_loop"
            /\ UNCHANGED <<err, debug>>
    /\ UNCHANGED <<openVars, pageVars, sel, loop_i, found_florida, all_ids, has_next,
                   cur, confirmed, histVars, unitVars, roundVars,
                   notPanel>>

\* what a click that was delivered does to the option's aria-selected: the
\* page either toggles it or ignores the click
ClickEffects(state) == {state, ~state}

\* variant: an option found selected is counted as newly selected
fl_next_counts_skipped ==
    /\ pc = "fl_loop"
    /\ \E fid \in todo :
          /\ todo' = todo \ {fid}
          /\ IF sel[fid]
             THEN /\ newly_selected' = newly_selected + 1
                  /\ UNCHANGED <<pc, cur>>
             ELSE /\ cur' = fid
                  /\ pc' = "fl_click"
                  /\ newly_selected' = newly_selected
    /\ UNCHANGED <<err, debug, openVars, pageVars, sel, loop_i, found_florida, all_ids,
                   has_next, confirmed, histVars, unitVars, roundVars,
                   notPanel>>

\* `for fid in for_ids`: read aria-selected; selected options are skipped
\* (list(set) has no defined order: any unvisited id may come next)
fl_next ==
    /\ pc = "fl_loop"
    /\ \E fid \in todo :
          /\ todo' = todo \ {fid}
          /\ IF sel[fid]
             THEN UNCHANGED <<pc, cur>>
             ELSE /\ cur' = fid
                  /\ pc' = "fl_click"
    /\ UNCHANGED <<err, debug, openVars, pageVars, sel, loop_i, found_florida, all_ids,
                   has_next, newly_selected, confirmed, histVars, unitVars, roundVars,
                   notPanel>>

\* label.click / label.click(force) / li.click(force): the first that does
\* not raise delivers the click; if the third raises too the exception leaves
\* the function
fl_click ==
    /\ pc = "fl_click"
    /\ \E delivered \in BOOLEAN :
          IF delivered
          THEN /\ \E s \in ClickEffects(sel[cur]) : sel' = [sel EXCEPT ![cur] = s]
               /\ touched' = touched \cup {cur}
               /\ loop_i' = 0
               /\ pc' = "fl_poll"
               /\ err' = err
          ELSE /\ err' = "PlaywrightError: li.click"
               /\ pc' = "aborted"
               /\ UNCHANGED <<sel, touched, loop_i>>
    /\ UNCHANGED <<debug, openVars, pageVars, found_florida, all_ids, has_next, todo,
                   cur, newly_selected, confirmed, injected, unitVars, roundVars,
                   notPanel>>

\* variant: the injection follows the first read that was false
fl_poll_impatient ==
    /\ pc = "fl_poll"
    /\ IF sel[cur]
       THEN /\ newly_selected' = newly_selected + 1
            /\ pc' = "fl_loop"
       ELSE /\ pc' = "fl_inject"
            /\ newly_selected' = newly_selected
    /\ UNCHANGED <<err, debug, openVars, pageVars, sel, loop_i, found_florida, all_ids,
                   has_next, todo, cur, confirmed, histVars, unitVars, roundVars,
                   notPanel>>

\* one iteration of `for _ in range(12)`, or the end of that loop
fl_poll ==
    /\ pc = "fl_poll"
    /\ IF loop_i < STATE_POLLS
       THEN IF sel[cur]
            THEN /\ newly_selected' = newly_selected + 1
                 /\ pc' = "fl_loop"
                 /\ loop_i' = loop_i
            ELSE /\ loop_i' = loop_i + 1
                 /\ UNCHANGED <<pc, newly_selected>>
       ELSE \* `if not selected`: every read of the loop was false
            /\ pc' = "fl_inject"
            /\ UNCHANGED <<loop_i, newly_selected>>
    /\ UNCHANGED <<err, debug, openVars, pageVars, sel, found_florida, all_ids, has_next,
                   todo, cur, confirmed, histVars, unitVars, roundVars,
                   notPanel>>

\* variant: the injection leaves the attribute false
FloridaInjectedState_not_patched == FALSE

\* the value the page script writes to checked and to aria-selected
FloridaInjectedState == TRUE

\* direct state injection, then the re-read of aria-selected
fl_inject ==
    /\ pc = "fl_inject"
    /\ sel' = [sel EXCEPT ![cur] = FloridaInjectedState]
    /\ injected' = injected \cup {cur}
    /\ touched' = touched \cup {cur}
    /\ newly_selected' = IF sel'[cur] THEN newly_selected + 1 ELSE newly_selected
    /\ pc' = "fl_loop"
    /\ UNCHANGED <<err, debug, openVars, pageVars, loop_i, found_florida, all_ids,
                   has_next, todo, cur, confirmed, unitVars, roundVars,
                   notPanel>>

\* after the loop: count the confirmed options, press Escape
fl_finish ==
    /\ pc = "fl_loop"
    /\ todo = {}
    /\ confirmed' = Cardinality({fid \in all_ids : sel[fid]})
    /\ panel_open' = FALSE
    /\ pc' = "fl_done"
    /\ round' = round + 1
    /\ first_result' = IF round = 0 THEN {id \in DOMAIN sel : sel[id]} ELSE first_result
    /\ UNCHANGED <<err, debug, attempt, tried, pageVars, sel, loop_i, found_florida,
                   all_ids, has_next, todo, cur, newly_selected, histVars, unitVars,
                   notPanel>>

(***************************************************************************)
(* set_unit_sizes                                                          *)
(***************************************************************************)
\* the fixed (name, input id) list of the function, in its order
options == <<"Studio", "1 Bedroom", "2 Bedroom", "3+ Bedroom">>
UnitNames == { options[i] : i \in 1..Len(options) }

\* UNIT_SIZES of both scripts
UNIT_SIZES == {"Studio", "1 Bedroom"}

\* should_select of the ensure_state call in progress: `name in desired_labels`
should_select == options[unit_i] \in desired_labels

\* #unit-size-dropdown click and panel.wait_for(visible): either may raise
unit_open ==
    /\ pc = "unit_open"
    /\ \E opened \in BOOLEAN :
          IF opened
          THEN /\ pc' = "unit_ensure"
               /\ unit_i' = 1
               /\ err' = err
          ELSE /\ pc' = "aborted"
               /\ err' = "TimeoutError: unit-size panel"
               /\ unit_i' = unit_i
    /\ UNCHANGED <<debug, openVars, pageVars, sel, locVars, histVars, desired_labels,
                   unit_sel, final_selected, roundVars,
                   notPanel>>

\* variant: every option that is present is clicked, matching or not
unit_ensure_no_skip ==
    /\ pc = "unit_ensure"
    /\ unit_i <= Len(options)
    /\ LET name == options[unit_i]
       IN  IF name \notin DOMAIN unit_sel
           THEN /\ unit_i' = unit_i + 1
                /\ pc' = pc
           ELSE /\ pc' = "unit_click"
                /\ unit_i' = unit_i
    /\ UNCHANGED <<err, debug, openVars, pageVars, sel, locVars, histVars, desired_labels,
                   unit_sel, final_selected, roundVars,
                   notPanel>>

\* ensure_state up to its first click: return when the label is missing or
\* the observed state already matches
unit_ensure ==
    /\ pc = "unit_ensure"
    /\ unit_i <= Len(options)
    /\ LET name == options[unit_i]
       IN  IF name \notin DOMAIN unit_sel \/ unit_sel[name] = should_select
           THEN /\ unit_i' = unit_i + 1
                /\ pc' = pc
           ELSE /\ pc' = "unit_click"
                /\ unit_i' = unit_i
    /\ UNCHANGED <<err, debug, openVars, pageVars, sel, locVars, histVars, desired_labels,
                   unit_sel, final_selected, roundVars,
                   notPanel>>

\* row_label.click / row_label.click(force) / li.click(force)
unit_click ==
    /\ pc = "unit_click"
    /\ LET name == options[unit_i]
       IN  \E delivered \in BOOLEAN :
              IF delivered
              THEN /\ \E s \in ClickEffects(unit_sel[name]) :
                         unit_sel' = [unit_sel EXCEPT ![name] = s]
                   /\ touched' = touched \cup {name}
                   /\ loop_i' = 0
                   /\ pc' = "unit_poll"
                   /\ err' = err
              ELSE /\ err' = "PlaywrightError: li.click"
                   /\ pc' = "aborted"
                   /\ UNCHANGED <<unit_sel, touched, loop_i>>
    /\ UNCHANGED <<debug, openVars, pageVars, sel, found_florida, all_ids, has_next, todo,
                   cur, newly_selected, confirmed, injected, desired_labels, unit_i,
                   final_selected, roundVars,
                   notPanel>>

\* one iteration of `for _ in range(12)`, or the end of that loop
unit_poll ==
    /\ pc = "unit_poll"
    /\ IF loop_i < STATE_POLLS
       THEN IF unit_sel[options[unit_i]] = should_select
            THEN /\ pc' = "unit_ensure"
                 /\ unit_i' = unit_i + 1
                 /\ loop_i' = loop_i
            ELSE /\ loop_i' = loop_i + 1
                 /\ UNCHANGED <<pc, unit_i>>
       ELSE /\ pc' = "unit_inject"
            /\ UNCHANGED <<loop_i, unit_i>>
    /\ UNCHANGED <<err, debug, openVars, pageVars, sel, found_florida, all_ids, has_next,
                   todo, cur, newly_selected, confirmed, histVars, desired_labels,
                   unit_sel, final_selected, roundVars,
                   notPanel>>

\* variant: the injection of the location panel, which always writes true
UnitInjectedState_always_true(should) == TRUE

\* the value the page script writes to checked and to aria-selected
UnitInjectedState(should) == should

\* direct state injection; ensure_state returns
unit_inject ==
    /\ pc = "unit_inject"
    /\ LET name == options[unit_i]
       IN  /\ unit_sel' = [unit_sel EXCEPT ![name] = UnitInjectedState(should_select)]
           /\ injected' = injected \cup {name}
           /\ touched' = touched \cup {name}
    /\ unit_i' = unit_i + 1
    /\ pc' = "unit_ensure"
    /\ UNCHANGED <<err, debug, openVars, pageVars, sel, locVars, desired_labels,
                   final_selected, roundVars,
                   notPanel>>

\* the names of `opts` (in order) whose aria-selected is "true"
RECURSIVE SelectedOf(_, _)
SelectedOf(opts, state) ==
    IF opts = <<>> THEN <<>>
    ELSE (IF state[Head(opts)] THEN <<Head(opts)>> ELSE <<>>) \o SelectedOf(Tail(opts), state)

\* the final read-back loop (li.get_attribute raises when the option is not
\* in the panel) and Escape
unit_finish ==
    /\ pc = "unit_ensure"
    /\ unit_i = Len(options) + 1
    /\ IF UnitNames \subseteq DOMAIN unit_sel
       THEN /\ final_selected' = SelectedOf(options, unit_sel)
            /\ pc' = "unit_done"
            /\ round' = round + 1
            /\ first_result' = IF round = 0 THEN {n \in DOMAIN unit_sel : unit_sel[n]}
                               ELSE first_result
            /\ err' = err
       ELSE /\ err' = "TimeoutError: li.get_attribute"
            /\ pc' = "aborted"
            /\ UNCHANGED <<final_selected, roundVars>>
    /\ UNCHANGED <<debug, openVars, pageVars, sel, locVars, histVars, desired_labels,
                   unit_sel, unit_i,
                   notPanel>>

(***************************************************************************)
(* Running a reconcile step again on the page it left behind.              *)
(***************************************************************************)
select_all_again ==
    /\ pc = "fl_done"
    /\ round < MaxRounds
    /\ pc' = "open_dropdown"
    /\ attempt' = 0
    /\ tried' = <<>>
    /\ loop_i' = 0
    /\ found_florida' = FALSE
    /\ all_ids' = {}
    /\ has_next' = FALSE
    /\ todo' = {}
    /\ cur' = "none"
    /\ newly_selected' = 0
    /\ confirmed' = 0
    /\ UNCHANGED <<err, debug, panel_open, pageVars, sel, histVars, unitVars, roundVars,
                   notPanel>>

set_unit_sizes_again ==
    /\ pc = "unit_done"
    /\ round < MaxRounds
    /\ pc' = "unit_open"
    /\ unit_i' = 0
    /\ final_selected' = <<>>
    /\ UNCHANGED <<err, debug, openVars, pageVars, sel, locVars, histVars, desired_labels,
                   unit_sel, roundVars,
                   notPanel>>

(***************************************************************************)
(* Points parsing: clean_points_from_text and scrape_results._points_from_ *)
(* text.  A text is a sequence of characters; "P" stands for the letters   *)
(* of the word "points" in any case, "a" for any other letter.             *)
(***************************************************************************)
Digits == {"1", "2"}
Chars  == Digits \cup {",", " ", "a", "P"}

\* [\d,]
IsDigitOrComma(c) == c \in Digits \cup {","}
\* \w
IsWordChar(c) == c \in Digits \cup {"a", "P"}

\* last index of the longest run of characters of class `cls` that starts at i
RECURSIVE RunEnd(_, _, _)
RunEnd(t, i, cls) ==
    IF i < Len(t) /\ t[i + 1] \in cls THEN RunEnd(t, i + 1, cls) ELSE i

\* s.replace(",", "")
RECURSIVE RemoveCommas(_)
RemoveCommas(t) ==
    IF t = <<>> THEN <<>>
    ELSE (IF Head(t) = "," THEN <<>> ELSE <<Head(t)>>) \o RemoveCommas(Tail(t))

\* ([\d,]+)\s*points matched at position i: the greedy run of digits and
\* commas from i, then any whitespace, then the word; the value is the
\* (first, last) index pair of group 1, or <<>> when there is no match at i
PointsPatternAt(t, i) ==
    IF ~IsDigitOrComma(t[i]) THEN <<>>
    ELSE LET e == RunEnd(t, i, Digits \cup {","})
             w == IF e < Len(t) /\ t[e + 1] = " " THEN RunEnd(t, e + 1, {" "}) + 1 ELSE e + 1
         IN  IF w <= Len(t) /\ t[w] = "P" THEN <<i, e>> ELSE <<>>

\* \b after position e, which holds a word character
BoundaryAfter(t, e) == e = Len(t) \/ ~IsWordChar(t[e + 1])

\* number of consecutive (?:,\d{3}) groups that start at position p
RECURSIVE GroupsAt(_, _)
GroupsAt(t, p) ==
    IF /\ p + 3 <= Len(t)
       /\ t[p] = ","
       /\ t[p + 1] \in Digits /\ t[p + 2] \in Digits /\ t[p + 3] \in Digits
    THEN 1 + GroupsAt(t, p + 4)
    ELSE 0

\* \b(\d{1,3}(?:,\d{3})+|\d{4,})\b matched at position i (greedy, with
\* backtracking over the number of groups); <<first, last>> or <<>>
NumberPatternAt(t, i) ==
    IF t[i] \notin Digits \/ (i > 1 /\ IsWordChar(t[i - 1])) THEN <<>>
    ELSE LET e == RunEnd(t, i, Digits)
             g == GroupsAt(t, e + 1)
         IN  IF e - i + 1 <= 3
             THEN IF g >= 1 /\ BoundaryAfter(t, e + 4 * g) THEN <<i, e + 4 * g>>
                  ELSE IF g >= 2 THEN <<i, e + 4 * (g - 1)>>
                  ELSE <<>>
             ELSE IF BoundaryAfter(t, e) THEN <<i, e>> ELSE <<>>

\* re.search: the match at the leftmost position that has one, as the text of
\* group 1; <<"none">> when no position matches
SearchPoints(t) ==
    IF \E i \in 1..Len(t) : PointsPatternAt(t, i) # <<>>
    THEN LET i == CHOOSE k \in 1..Len(t) :
                     /\ PointsPatternAt(t, k) # <<>>
                     /\ \A j \in 1..(k - 1) : PointsPatternAt(t, j) = <<>>
             m == PointsPatternAt(t, i)
         IN  SubSeq(t, m[1], m[2])
    ELSE <<"none">>

SearchNumber(t) ==
    IF \E i \in 1..Len(t) : NumberPatternAt(t, i) # <<>>
    THEN LET i == CHOOSE k \in 1..Len(t) :
                     /\ NumberPatternAt(t, k) # <<>>
                     /\ \A j \in 1..(k - 1) : NumberPatternAt(t, j) = <<>>
             m == NumberPatternAt(t, i)
         IN  SubSeq(t, m[1], m[2])
    ELSE <<"none">>

clean_points_from_text(t) ==
    IF t = <<>> THEN <<>>
    ELSE LET m == SearchPoints(t)
         IN  IF m # <<"none">> THEN RemoveCommas(m)
             ELSE LET m2 == SearchNumber(t)
                  IN  IF m2 # <<"none">> THEN RemoveCommas(m2) ELSE <<>>

_points_from_text(t) ==
    IF t = <<>> THEN <<>>
    ELSE LET m == SearchPoints(t)
         IN  IF m # <<"none">> THEN RemoveCommas(m)
             ELSE LET m2 == SearchNumber(t)
                  IN  IF m2 # <<"none">> THEN RemoveCommas(m2) ELSE <<>>

\* a call of one of the two parsers on txt
parse_clean_points ==
    /\ pc = "parse"
    /\ pts' = clean_points_from_text(txt)
    /\ pc' = "parsed_clean"
    /\ UNCHANGED <<err, debug, txt, resVars, rowVars, notScrape>>

parse_points_from_text ==
    /\ pc = "parse"
    /\ pts' = _points_from_text(txt)
    /\ pc' = "parsed"
    /\ UNCHANGED <<err, debug, txt, resVars, rowVars, notScrape>>

(***************************************************************************)
(* scrape_results.  An element of the results page is given by what the    *)
(* selector cascades find in it: resort (first non-empty resort           *)
(* candidate), room (first non-empty unit candidate) and its inner text.   *)
(***************************************************************************)
\* a row dict
Row(dr, resort, room, points) ==
    [Date_Range |-> dr, Resort |-> resort, Room |-> room, Points |-> points]

\* variant: every card or block yields a row
RECURSIVE CandidateRows_unfiltered(_, _)
CandidateRows_unfiltered(elems, dr) ==
    IF elems = <<>> THEN <<>>
    ELSE <<Row(dr, Head(elems).resort, Head(elems).room, _points_from_text(Head(elems).text))>>
         \o CandidateRows_unfiltered(Tail(elems), dr)

\* `if resort or room or pts` for one tier-1 card or tier-2 block
RECURSIVE CandidateRows(_, _)
CandidateRows(elems, dr) ==
    IF elems = <<>> THEN <<>>
    ELSE LET e == Head(elems)
             p == _points_from_text(e.text)
         IN  (IF e.resort # "" \/ e.room # "" \/ p # <<>>
              THEN <<Row(dr, e.resort, e.room, p)>> ELSE <<>>)
             \o CandidateRows(Tail(elems), dr)

\* filter(has_text=\bpoints\b): the word stands alone in the text
HasPointsWord(t) ==
    \E i \in 1..Len(t) :
        /\ t[i] = "P"
        /\ (i = 1 \/ ~IsWordChar(t[i - 1]))
        /\ (i = Len(t) \/ ~IsWordChar(t[i + 1]))

RECURSIVE FilterPoints(_)
FilterPoints(elems) ==
    IF elems = <<>> THEN <<>>
    ELSE (IF HasPointsWord(Head(elems).text) THEN <<Head(elems)>> ELSE <<>>)
         \o FilterPoints(Tail(elems))

\* min(60, pts_nodes.count())
TIER3_CAP == 60

\* tier 3: a node is skipped when no points value is parsed from its block
RECURSIVE PointsRows(_, _)
PointsRows(elems, dr) ==
    IF elems = <<>> THEN <<>>
    ELSE LET e == Head(elems)
             p == _points_from_text(e.text)
         IN  (IF p # <<>> THEN <<Row(dr, e.resort, e.room, p)>> ELSE <<>>)
             \o PointsRows(Tail(elems), dr)

\* variant: the key leaves out the points value
KeyOf_without_points(r) == <<r.Date_Range, r.Resort, r.Room>>

\* key = (r["Date Range"], r["Resort"], r["Room"], r["Points"])
KeyOf(r) == <<r.Date_Range, r.Resort, r.Room, r.Points>>

\* the dedup loop: seen, out
RECURSIVE Dedup(_, _, _)
Dedup(rs, seen, acc) ==
    IF rs = <<>> THEN acc
    ELSE IF KeyOf(Head(rs)) \in seen THEN Dedup(Tail(rs), seen, acc)
    ELSE Dedup(Tail(rs), seen \cup {KeyOf(Head(rs))}, Append(acc, Head(rs)))

\* primary: explicit result cards
scrape_tier1 ==
    /\ pc = "scrape"
    /\ rows' = CandidateRows(cards, date_range)
    /\ pc' = "scrape_tier2"
    /\ UNCHANGED <<err, debug, ptsVars, resVars, out, notScrape>>

\* variant: the secondary tier runs whatever the primary tier produced
scrape_tier2_always ==
    /\ pc = "scrape_tier2"
    /\ rows' = rows \o CandidateRows(FilterPoints(blocks), date_range)
    /\ pc' = "scrape_tier3"
    /\ UNCHANGED <<err, debug, ptsVars, resVars, out, notScrape>>

\* secondary: section/article blocks that mention points, only `if not rows`
scrape_tier2 ==
    /\ pc = "scrape_tier2"
    /\ rows' = IF rows = <<>> THEN CandidateRows(FilterPoints(blocks), date_range) ELSE rows
    /\ pc' = "scrape_tier3"
    /\ UNCHANGED <<err, debug, ptsVars, resVars, out, notScrape>>

\* tertiary: nodes whose text contains "points", only `if not rows`
scrape_tier3 ==
    /\ pc = "scrape_tier3"
    /\ rows' = IF rows = <<>>
               THEN PointsRows(SubSeq(nodes, 1, Min(TIER3_CAP, Len(nodes))), date_range)
               ELSE rows
    /\ pc' = "scrape_dedup"
    /\ UNCHANGED <<err, debug, ptsVars, resVars, out, notScrape>>

\* dedup; an empty result dumps the page (guarded) and takes the
\* no_results_debug screenshot (which may raise); return out
scrape_dedup ==
    /\ pc = "scrape_dedup"
    /\ out' = Dedup(rows, {}, <<>>)
    /\ \E shot \in BOOLEAN :
          IF out' = <<>> /\ ~shot
          THEN /\ err' = "PlaywrightError: page.screenshot"
               /\ pc' = "aborted"
               /\ debug' = debug
          ELSE /\ debug' = IF out' = <<>> THEN debug \cup {"no_results_debug"} ELSE debug
               /\ pc' = "scraped"
               /\ err' = err
    /\ UNCHANGED <<ptsVars, resVars, rows, notScrape>>

(***************************************************************************)
(* The calendar overlay.  A month is its number of day cells and the set   *)
(* of days whose button is not disabled; block b shows month cal_first+b.  *)
(***************************************************************************)
\* NIGHTS of hicv_original_working.py
NIGHTS == 7
\* `step < 12` of the month search
MONTH_STEPS == 12

Month(len, enabled) == [len |-> len, enabled |-> enabled]

\* the block exists: blocks.nth(b).count() > 0
BlockExists(b) == b < n_blocks

\* _find_day_btn_in_block(mb, day_num): the day cell exists in the block and
\* its button is not disabled
_find_day_btn_in_block(mb, day_num) ==
    /\ BlockExists(mb)
    /\ day_num \in 1..months[cal_first + mb].len
    /\ day_num \in months[cal_first + mb].enabled

\* _first_enabled_after(mb, min_day): the first d of range(min_day + 1, 32)
\* with a button, or 0 for None
_first_enabled_after(mb, min_day) ==
    LET found == { d \in (min_day + 1)..31 : _find_day_btn_in_block(mb, d) }
    IN  IF found = {} THEN 0 ELSE CHOOSE d \in found : \A e \in found : d <= e

\* other.locator("button[class*='rdp-day']:not([disabled])").first: the
\* first enabled day of the block, or 0 when the locator matches nothing
FirstEnabledIn(mb) ==
    LET found == IF BlockExists(mb)
                 THEN months[cal_first + mb].enabled \cap (1..months[cal_first + mb].len)
                 ELSE {}
    IN  IF found = {} THEN 0 ELSE CHOOSE d \in found : \A e \in found : d <= e

\* `a == blocks.nth(b)` on Locator objects: equality of the elements they
\* denote, or identity of two distinct Python objects (never equal)
LocatorEq(a, b) == IF locator_eq = "identity" THEN FALSE ELSE a = b

\* blocks.nth(1) if mb == blocks.nth(0) else blocks.nth(0)
OtherBlock(mb) == IF LocatorEq(mb, 0) THEN 1 ELSE 0

\* target_end = start_day + max(1, NIGHTS - 1)
TargetEnd(start_day) == start_day + Max(1, NIGHTS - 1)

\* (target_end - 31) if target_end > 31 else target_end
WrappedDay(target_end) == IF target_end > 31 THEN target_end - 31 ELSE target_end

\* the end cell _try_click_range settles on, as [block, day]; day 0 when
\* there is none (`not end_btn or end_btn.count() == 0`)
EndCell(mb, start_day) ==
    LET target_end == TargetEnd(start_day)
        other == OtherBlock(mb)
    IN  IF _find_day_btn_in_block(mb, target_end)
        THEN [block |-> mb, day |-> target_end]
        ELSE IF _first_enabled_after(mb, start_day) # 0
        THEN [block |-> mb, day |-> _first_enabled_after(mb, start_day)]
        ELSE IF ~BlockExists(other)
        THEN [block |-> other, day |-> 0]
        ELSE IF _find_day_btn_in_block(other, WrappedDay(target_end))
        THEN [block |-> other, day |-> WrappedDay(target_end)]
        ELSE [block |-> other, day |-> FirstEnabledIn(other)]

\* a day cell that was clicked
Click(role, mb, d) == [role |-> role, block |-> mb, day |-> d]

\* variant: only the first visible block is compared with target_caption
CaptionMatch_first_only(first) ==
    IF n_blocks >= 1 /\ first = target THEN 0 ELSE -1

\* the visible block whose caption equals target_caption, first match of
\* `for i in range(min(2, blocks.count()))`; -1 (None) without one
CaptionMatch(first) ==
    IF n_blocks >= 1 /\ first = target THEN 0
    ELSE IF n_blocks >= 2 /\ first + 1 = target THEN 1
    ELSE -1

\* ready: at least one caption and one enabled day button in the overlay
CalendarReady ==
    \E b \in 0..(n_blocks - 1) : FirstEnabledIn(b) # 0

\* the [data-uitest='next-month'] control reports aria-disabled on the last page
NextDisabled == cal_first + n_blocks > Len(months)

\* page.locator("div.rdp-month button[class*='rdp-day']:not([disabled])"):
\* the enabled day cells of block b in document order, as clicks of `role`
RECURSIVE EnabledFrom(_, _)
EnabledFrom(b, d) ==
    IF ~BlockExists(b) \/ d > months[cal_first + b].len THEN <<>>
    ELSE (IF d \in months[cal_first + b].enabled THEN <<[block |-> b, day |-> d]>> ELSE <<>>)
         \o EnabledFrom(b, d + 1)

AllEnabled == EnabledFrom(0, 1) \o EnabledFrom(1, 1)

(***************************************************************************)
(* pick_checkin_date                                                       *)
(***************************************************************************)
\* _open_calendar: return if the overlay is visible; else click the openers
\* (the forced click may raise) and wait for the overlay; raise when no
\* opener made it visible
open_calendar ==
    /\ pc = "open_calendar"
    /\ IF cal_visible
       THEN /\ pc' = "wait_ready"
            /\ UNCHANGED <<err, cal_visible>>
       ELSE \E outcome \in {"opened", "click_raised", "not_opened"} :
              /\ cal_visible' = (outcome = "opened")
              /\ pc' = IF outcome = "opened" THEN "wait_ready" ELSE "aborted"
              /\ err' = CASE outcome = "opened" -> err
                           [] outcome = "click_raised" -> "PlaywrightError: btn.click"
                           [] OTHER -> "RuntimeError: Could not open the check-in calendar overlay"
    /\ UNCHANGED <<debug, months, cal_first, n_blocks, locator_eq, calArgs, calLocals,
                   calHist, confVars, notCal>>

\* _wait_calendar_ready(10000) and the check of its result: overlay.wait_for
\* raises when the overlay is not visible; not ready in time dumps the
\* overlay and raises; ready starts the month search with the first scan of
\* the captions
cal_wait_ready ==
    /\ pc = "wait_ready"
    /\ \E overlay_seen \in BOOLEAN, in_time \in BOOLEAN :
          IF ~overlay_seen
          THEN /\ err' = "TimeoutError: overlay.wait_for"
               /\ pc' = "aborted"
               /\ UNCHANGED <<debug, target_mb, step>>
          ELSE IF in_time /\ CalendarReady
          THEN /\ target_mb' = CaptionMatch(cal_first)
               /\ step' = 0
               /\ pc' = "search"
               /\ UNCHANGED <<err, debug>>
          ELSE /\ debug' = debug \cup {"calendar_dump_before_ready"}
               /\ err' = "RuntimeError: Calendar overlay did not finish rendering"
               /\ pc' = "aborted"
               /\ UNCHANGED <<target_mb, step>>
    /\ UNCHANGED <<calPage, calArgs, start_mb, try_no, calHist, confVars, notCal>>

\* one iteration of `while not target_mb and step < 12`: break on a disabled
\* or unclickable next control, else click, call _wait_calendar_ready(4000)
\* (whose overlay.wait_for raises when the overlay is not visible and whose
\* result is not looked at), rescan the captions, step += 1
cal_search_step ==
    /\ pc = "search"
    /\ target_mb = -1
    /\ step < MONTH_STEPS
    /\ IF NextDisabled
       THEN /\ pc' = "search_done"
            /\ UNCHANGED <<err, cal_first, target_mb, step, next_clicks>>
       ELSE \E outcome \in {"advanced", "ignored", "click_raised"}, overlay_seen \in BOOLEAN :
              IF outcome = "click_raised"
              THEN /\ overlay_seen
                   /\ pc' = "search_done"
                   /\ UNCHANGED <<err, cal_first, target_mb, step, next_clicks>>
              ELSE /\ cal_first' = IF outcome = "advanced" THEN cal_first + 1 ELSE cal_first
                   /\ next_clicks' = next_clicks + 1
                   /\ IF overlay_seen
                      THEN /\ target_mb' = CaptionMatch(cal_first')
                           /\ step' = step + 1
                           /\ pc' = pc
                           /\ err' = err
                      ELSE /\ err' = "TimeoutError: overlay.wait_for"
                           /\ pc' = "aborted"
                           /\ UNCHANGED <<target_mb, step>>
    /\ UNCHANGED <<debug, cal_visible, months, n_blocks, locator_eq, calArgs,
                   start_mb, try_no, clicks, confVars, notCal>>

\* after the loop: `if not target_mb: target_mb = blocks.first`, then the
\* first _try_click_range call
cal_search_end ==
    /\ \/ pc = "search_done"
       \/ pc = "search" /\ (target_mb # -1 \/ step = MONTH_STEPS)
    /\ target_mb' = IF target_mb = -1 THEN 0 ELSE target_mb
    /\ start_mb' = target_mb'
    /\ try_no' = 1
    /\ pc' = "try_start"
    /\ UNCHANGED <<err, debug, calPage, calArgs, step, calHist, confVars, notCal>>

\* where pick_checkin_date goes when a _try_click_range call returned False:
\* the second call on the other block if that block exists, else the fallback
AfterFalse ==
    IF try_no = 1 /\ BlockExists(OtherBlock(target_mb))
    THEN [pc |-> "try_start", start_mb |-> OtherBlock(target_mb), try_no |-> 2]
    ELSE [pc |-> "fallback", start_mb |-> start_mb, try_no |-> try_no]

\* _try_click_range up to the click on the start day
try_click_start ==
    /\ pc = "try_start"
    /\ IF ~_find_day_btn_in_block(start_mb, day)
       THEN /\ pc' = AfterFalse.pc
            /\ start_mb' = AfterFalse.start_mb
            /\ try_no' = AfterFalse.try_no
            /\ UNCHANGED <<err, clicks>>
       ELSE \E delivered \in BOOLEAN :
              IF delivered
              THEN /\ clicks' = Append(clicks, Click("start", start_mb, day))
                   /\ pc' = "try_end"
                   /\ UNCHANGED <<err, start_mb, try_no>>
              ELSE /\ err' = "PlaywrightError: start_btn.click"
                   /\ pc' = "aborted"
                   /\ UNCHANGED <<clicks, start_mb, try_no>>
    /\ UNCHANGED <<debug, calPage, calArgs, target_mb, step, next_clicks, confVars, notCal>>

\* _try_click_range from target_end on: settle on an end cell and click it
try_click_end ==
    /\ pc = "try_end"
    /\ LET cell == EndCell(start_mb, day)
       IN  IF cell.day = 0
           THEN /\ pc' = AfterFalse.pc
                /\ start_mb' = AfterFalse.start_mb
                /\ try_no' = AfterFalse.try_no
                /\ UNCHANGED <<err, clicks>>
           ELSE \E delivered \in BOOLEAN :
                  IF delivered
                  THEN /\ clicks' = Append(clicks, Click("end", cell.block, cell.day))
                       /\ pc' = "picked"
                       /\ UNCHANGED <<err, start_mb, try_no>>
                  ELSE /\ err' = "PlaywrightError: end_btn.click"
                       /\ pc' = "aborted"
                       /\ UNCHANGED <<clicks, start_mb, try_no>>
    /\ UNCHANGED <<debug, calPage, calArgs, target_mb, step, next_clicks, confVars, notCal>>

\* neither call formed a range: click the first two enabled cells, or with
\* fewer than two take the screenshot (which may raise), dump and raise
cal_fallback ==
    /\ pc = "fallback"
    /\ IF Len(AllEnabled) >= 2
       THEN \E delivered \in BOOLEAN :
              IF delivered
              THEN /\ clicks' = clicks \o
                         << Click("first", AllEnabled[1].block, AllEnabled[1].day),
                            Click("second", AllEnabled[2].block, AllEnabled[2].day) >>
                   /\ pc' = "picked"
                   /\ UNCHANGED <<err, debug>>
              ELSE /\ err' = "PlaywrightError: all_enabled.click"
                   /\ pc' = "aborted"
                   /\ UNCHANGED <<clicks, debug>>
       ELSE \E shot \in BOOLEAN :
              /\ debug' = IF shot THEN debug \cup {"date_day_not_found", "calendar_dump"}
                          ELSE debug
              /\ err' = IF shot THEN "RuntimeError: No enabled dates to select a range"
                        ELSE "PlaywrightError: page.screenshot"
              /\ pc' = "aborted"
              /\ clicks' = clicks
    /\ UNCHANGED <<calPage, calArgs, calLocals, next_clicks, confVars, notCal>>

(***************************************************************************)
(* finalize_dates_in_picker and click_confirm_dates                        *)
(***************************************************************************)
\* the inner Done: if present, wait up to 6 s for it to be enabled, then
\* click it (the forced click may raise)
finalize_done ==
    /\ pc = "finalize"
    /\ \E present \in BOOLEAN, enabled_seen \in BOOLEAN, delivered \in BOOLEAN :
          IF ~present
          THEN /\ pc' = "finalize_confirm"
               /\ UNCHANGED <<err, done_clicked>>
          ELSE IF delivered
          THEN /\ done_clicked' = IF enabled_seen THEN "seen_enabled" ELSE "not_seen_enabled"
               /\ pc' = "finalize_confirm"
               /\ err' = err
          ELSE /\ err' = "PlaywrightError: done.click"
               /\ pc' = "aborted"
               /\ done_clicked' = done_clicked
    /\ UNCHANGED <<debug, calPage, calArgs, calLocals, calHist, confirm_seen,
                   confirm_clicked, notCal>>

\* the wait for the outer Confirm: return True when a candidate is seen
\* visible and enabled in time, else dump (guarded), take the screenshot
\* (which may raise) and raise
finalize_confirm ==
    /\ pc = "finalize_confirm"
    /\ \E seen \in BOOLEAN, shot \in BOOLEAN :
          IF seen
          THEN /\ confirm_seen' = TRUE
               /\ pc' = "finalized"
               /\ UNCHANGED <<err, debug>>
          ELSE /\ debug' = debug \cup (IF shot THEN {"confirm_area_dump", "confirm_disabled"}
                                       ELSE {"confirm_area_dump"})
               /\ err' = IF shot THEN "RuntimeError: Confirm Dates (outer) did not enable"
                         ELSE "PlaywrightError: page.screenshot"
               /\ pc' = "aborted"
               /\ confirm_seen' = confirm_seen
    /\ UNCHANGED <<calPage, calArgs, calLocals, calHist, done_clicked, confirm_clicked,
                   notCal>>

\* click_confirm_dates: poll for a visible and enabled candidate; click it
\* if one was found (the forced click may raise), else only dump the page;
\* then wait, best effort, for the overlay to hide; return
click_confirm_dates ==
    /\ pc = "click_confirm"
    /\ \E found \in BOOLEAN, delivered \in BOOLEAN, hidden \in BOOLEAN :
          IF found /\ ~delivered
          THEN /\ err' = "PlaywrightError: cta.click"
               /\ pc' = "aborted"
               /\ UNCHANGED <<debug, confirm_clicked, cal_visible>>
          ELSE /\ confirm_clicked' = found
               /\ debug' = IF found THEN debug ELSE debug \cup {"confirm_area_dump"}
               /\ cal_visible' = ~hidden
               /\ pc' = "confirm_returned"
               /\ err' = err
    /\ UNCHANGED <<months, cal_first, n_blocks, locator_eq, calArgs, calLocals, calHist,
                   done_clicked, confirm_seen, notCal>>


(***************************************************************************)
(* set_counter, the nights field, pick_month, pick_year                    *)
(***************************************************************************)
\* ADULTS, CHILDREN of both scripts
ADULTS == 2
CHILDREN == 0
\* `tries < 30` of set_counter
COUNTER_TRIES == 30

\* the counter a stage sets and its target
CounterKind == IF stage = "set_counter_adults" THEN "adults" ELSE "children"
CounterTarget == IF stage = "set_counter_adults" THEN ADULTS ELSE CHILDREN

\* cur = int(span.inner_text()) (which may raise); tries = 0
counter_begin ==
    /\ pc = "counter"
    /\ \E read \in BOOLEAN :
          IF read
          THEN /\ cur_count' = shown[CounterKind]
               /\ pc' = "counter_loop"
               /\ err' = err
          ELSE /\ err' = "PlaywrightError: span.inner_text"
               /\ pc' = "aborted"
               /\ cur_count' = cur_count
    /\ tries' = 0
    /\ UNCHANGED <<debug, shown, nights_field, month_set, year_set, notForm>>

\* one iteration of `while cur != target and tries < 30`: click plus (which
\* may raise) or minus (guarded), re-read the counter (guarded), tries += 1
counter_step ==
    /\ pc = "counter_loop"
    /\ cur_count # CounterTarget
    /\ tries < COUNTER_TRIES
    /\ \E acted \in BOOLEAN, raised \in BOOLEAN, read \in BOOLEAN :
          IF cur_count < CounterTarget /\ raised
          THEN /\ err' = "PlaywrightError: plus_btn.click"
               /\ pc' = "aborted"
               /\ UNCHANGED <<shown, cur_count, tries>>
          ELSE /\ shown' = [shown EXCEPT ![CounterKind] =
                              IF ~acted THEN @
                              ELSE IF cur_count < CounterTarget THEN Min(@ + 1, MaxGuests)
                              ELSE Max(@ - 1, 0)]
               /\ cur_count' = IF read THEN shown'[CounterKind] ELSE cur_count
               /\ tries' = tries + 1
               /\ UNCHANGED <<err, pc>>
    /\ UNCHANGED <<debug, nights_field, month_set, year_set, notForm>>

\* the loop ended: set_counter returns
counter_return ==
    /\ pc = "counter_loop"
    /\ cur_count = CounterTarget \/ tries = COUNTER_TRIES
    /\ pc' = "counter_done"
    /\ UNCHANGED <<err, debug, formVars, notForm>>

\* nights_input: click and fill when the input exists (either may raise)
fill_nights ==
    /\ pc = "nights"
    /\ \E present \in BOOLEAN, filled \in BOOLEAN :
          IF present /\ ~filled
          THEN /\ err' = "PlaywrightError: nights_input.fill"
               /\ pc' = "aborted"
               /\ nights_field' = nights_field
          ELSE /\ nights_field' = IF present THEN NIGHTS ELSE nights_field
               /\ pc' = "nights_done"
               /\ err' = err
    /\ UNCHANGED <<debug, shown, cur_count, tries, month_set, year_set, notForm>>

\* pick_month: two unguarded clicks
pick_month ==
    /\ pc = "pick_month"
    /\ \E clicked \in BOOLEAN :
          /\ month_set' = clicked
          /\ pc' = IF clicked THEN "month_done" ELSE "aborted"
          /\ err' = IF clicked THEN err ELSE "PlaywrightError: month_btn.click"
    /\ UNCHANGED <<debug, shown, cur_count, tries, nights_field, year_set, notForm>>

\* pick_year: the first selector that matches is clicked (the forced click
\* may raise); with none, and no option by role, RuntimeError
pick_year ==
    /\ pc = "pick_year"
    /\ \E outcome \in {"clicked", "click_raised", "not_found"} :
          /\ year_set' = (outcome = "clicked")
          /\ pc' = IF outcome = "clicked" THEN "year_done" ELSE "aborted"
          /\ err' = CASE outcome = "clicked" -> err
                      [] outcome = "click_raised" -> "PlaywrightError: opt.click"
                      [] OTHER -> "RuntimeError: Could not select year"
    /\ UNCHANGED <<debug, shown, cur_count, tries, nights_field, month_set, notForm>>

(***************************************************************************)
(* scrape_availability_member: the steps after Confirm                     *)
(***************************************************************************)
\* wait for network idle (guarded) and scroll_results_into_view
settle_results ==
    /\ pc = "settle"
    /\ pc' = "settled"
    /\ UNCHANGED <<err, debug, panelVars, scrapeVars, calVars, runVars>>

\* wait_for_results: return when an anchor is visible, else write_debug and
\* re-raise; then write_debug("member_results")
wait_for_results ==
    /\ pc = "wait_results"
    /\ \E visible \in BOOLEAN :
          IF visible
          THEN /\ debug' = write_debug("member_results")
               /\ pc' = "results_visible"
               /\ err' = err
          ELSE /\ debug' = write_debug("results_wait_failed")
               /\ err' = "TimeoutError: wait_for_results"
               /\ pc' = "aborted"
    /\ UNCHANGED <<panelVars, scrapeVars, calVars, runVars>>

\* the destination before anything was written to it
NoFile == [exists |-> FALSE, lines |-> <<>>]

\* writer.writeheader(): the row of the fieldnames
HeaderLine == [header |-> TRUE, row |-> Row("Date Range", "Resort", "Room", <<"Points">>)]

\* writer.writerow(r) for each r of rows
DataLines(rs) == [i \in 1..Len(rs) |-> [header |-> FALSE, row |-> rs[i]]]

\* variant: the header is written by every call
NewFile_always(f) == TRUE

\* new_file = not csv_path.exists()
NewFile(f) == ~f.exists

\* save_csv(rows, csv_path): open for append, write the header into a new
\* file, write the rows
save_csv(f, rs) ==
    [exists |-> TRUE,
     lines |-> f.lines \o (IF NewFile(f) THEN <<HeaderLine>> ELSE <<>>) \o DataLines(rs)]

\* `if rows:` save_csv, save_xlsx, else write_debug("no_results_debug")
save_rows ==
    /\ pc = "save"
    /\ saved' = IF out # <<>> THEN saved \o out ELSE saved
    /\ csv_file' = IF out # <<>> THEN save_csv(csv_file, out) ELSE csv_file
    /\ debug' = IF out # <<>> THEN debug ELSE write_debug("no_results_debug")
    /\ pc' = "done"
    /\ UNCHANGED <<err, panelVars, scrapeVars, calVars, runCtl, formVars, simpleVars>>

(***************************************************************************)
(* scrape_availability_member and fill_booking_form: the order of the      *)
(* calls.  A step is called when the previous one has returned; the page   *)
(* part a step works on is observed when the step is called.               *)
(***************************************************************************)
\* variant: set_unit_sizes is called before the two set_counter calls
StageAfter_units_first(s) ==
    CASE s = "start" -> "select_all_florida_locations"
      [] s = "select_all_florida_locations" -> "set_unit_sizes"
      [] s = "set_unit_sizes" -> "set_counter_adults"
      [] s = "set_counter_adults" -> "set_counter_children"
      [] s = "set_counter_children" -> "fill_nights"
      [] s = "fill_nights" -> "pick_month"
      [] s = "pick_month" -> "pick_year"
      [] s = "pick_year" -> "pick_checkin_date"
      [] s = "pick_checkin_date" -> "finalize_dates_in_picker"
      [] s = "finalize_dates_in_picker" -> "click_confirm_dates"
      [] s = "click_confirm_dates" -> "settle_results"
      [] s = "settle_results" -> "wait_for_results"
      [] s = "wait_for_results" -> "scrape_results"
      [] OTHER -> "save_rows"

\* the statement that follows the return of step s
StageAfter(s) ==
    CASE s = "start" -> "select_all_florida_locations"
      [] s = "select_all_florida_locations" -> "set_counter_adults"
      [] s = "set_counter_adults" -> "set_counter_children"
      [] s = "set_counter_children" -> "set_unit_sizes"
      [] s = "set_unit_sizes" -> "fill_nights"
      [] s = "fill_nights" -> "pick_month"
      [] s = "pick_month" -> "pick_year"
      [] s = "pick_year" -> "pick_checkin_date"
      [] s = "pick_checkin_date" -> "finalize_dates_in_picker"
      [] s = "finalize_dates_in_picker" -> "click_confirm_dates"
      [] s = "click_confirm_dates" -> "settle_results"
      [] s = "settle_results" -> "wait_for_results"
      [] s = "wait_for_results" -> "scrape_results"
      [] OTHER -> "save_rows"

\* where control is when step s is entered
EntryPc(s) ==
    CASE s = "select_all_florida_locations" -> "open_dropdown"
      [] s = "set_counter_adults" -> "counter"
      [] s = "set_counter_children" -> "counter"
      [] s = "set_unit_sizes" -> "unit_open"
      [] s = "fill_nights" -> "nights"
      [] s = "pick_month" -> "pick_month"
      [] s = "pick_year" -> "pick_year"
      [] s = "pick_checkin_date" -> "open_calendar"
      [] s = "finalize_dates_in_picker" -> "finalize"
      [] s = "click_confirm_dates" -> "click_confirm"
      [] s = "settle_results" -> "settle"
      [] s = "wait_for_results" -> "wait_results"
      [] s = "scrape_results" -> "scrape"
      [] OTHER -> "save"

\* where control is when step s has returned
ReturnPc(s) ==
    CASE s = "start" -> "start"
      [] s = "select_all_florida_locations" -> "fl_done"
      [] s = "set_counter_adults" -> "counter_done"
      [] s = "set_counter_children" -> "counter_done"
      [] s = "set_unit_sizes" -> "unit_done"
      [] s = "fill_nights" -> "nights_done"
      [] s = "pick_month" -> "month_done"
      [] s = "pick_year" -> "year_done"
      [] s = "pick_checkin_date" -> "picked"
      [] s = "finalize_dates_in_picker" -> "finalized"
      [] s = "click_confirm_dates" -> "confirm_returned"
      [] s = "settle_results" -> "settled"
      [] s = "wait_for_results" -> "results_visible"
      [] s = "scrape_results" -> "scraped"
      [] OTHER -> "done"

\* the events of the trace
Call(s) == <<"call", s>>
Return(s) == <<"return", s>>

(***************************************************************************)
(* Initial states.                                                         *)
(***************************************************************************)
InitCtl(p) ==
    /\ pc = p
    /\ err = "none"
    /\ debug = {}

InitLocals ==
    /\ attempt = 0
    /\ tried = <<>>
    /\ panel_open = FALSE
    /\ loop_i = 0
    /\ found_florida = FALSE
    /\ all_ids = {}
    /\ has_next = FALSE
    /\ todo = {}
    /\ cur = "none"
    /\ newly_selected = 0
    /\ confirmed = 0
    /\ touched = {}
    /\ injected = {}
    /\ unit_i = 0
    /\ final_selected = <<>>
    /\ round = 0
    /\ first_result = {}

\* selections a list can be found in: any selection of the Florida options,
\* the options of the other groups all unselected or all selected
Selections(list) ==
    LET ids == OptionIdsOf(list)
        fl  == { id \in ids : \E i \in 1..Len(FloridaIds) : FloridaIds[i] = id }
    IN  { [id \in ids |-> IF id \in fl THEN id \in chosen ELSE others] :
            chosen \in SUBSET fl, others \in BOOLEAN }

\* any list, partly or fully rendered, in any selection state
AnyLocationPage ==
    /\ items \in Layouts
    /\ rendered \in 1..Len(items)
    /\ lazy \in {"grows", "stuck"}
    /\ sel \in Selections(items)

\* a fully rendered list with two Florida options, nothing selected
PlainLocationPage ==
    /\ items = Layout(1, TRUE, 2, TRUE, 1)
    /\ rendered = Len(items)
    /\ lazy = "grows"
    /\ sel = [id \in OptionIdsOf(items) |-> FALSE]

\* any desired label set, any selection state, at most one option missing
AnyUnitPanel ==
    /\ desired_labels \in SUBSET UnitNames
    /\ \E present \in {UnitNames} \cup { UnitNames \ {n} : n \in UnitNames } :
          unit_sel \in [present -> BOOLEAN]

PlainUnitPanel ==
    /\ desired_labels = UNIT_SIZES
    /\ unit_sel = [n \in UnitNames |-> FALSE]

\* no parser call in progress
NoParse ==
    /\ txt = <<>>
    /\ pts = <<>>

\* sequences over S of length at most n
SeqsUpTo(S, n) == UNION { [1..k -> S] : k \in 0..n }

Elem(resort, room, text) == [resort |-> resort, room |-> room, text |-> text]

\* the elements a results page is built from
Elements ==
    { Elem("", "", <<>>),
      Elem("Orange Lake", "", <<>>),
      Elem("Orange Lake", "Studio", <<"1", ",", "2", "1", "1", " ", "P">>),
      Elem("Orange Lake", "Studio", <<"a", " ", "P">>),
      Elem("", "", <<"1", ",", "2", "1", "1", " ", "P">>),
      Elem("", "", <<"a", " ", "P">>) }

\* elements matched by //*[contains(translate(., 'POINTS','points'),'points')]
PointsElements == { e \in Elements : \E i \in 1..Len(e.text) : e.text[i] = "P" }

\* the results pages with at most n elements in all
ResultsPages(n) ==
    UNION { [cards : [1..a -> Elements], blocks : [1..b -> Elements],
             nodes : [1..c -> PointsElements]] :
            <<a, b, c>> \in { t \in (0..n) \X (0..n) \X (0..n) : t[1] + t[2] + t[3] <= n } }

\* a page with one node more than tier 3 looks at: only the last one lies
\* in a block with a points value
LongResultsPage ==
    [cards |-> <<>>, blocks |-> <<>>,
     nodes |-> [i \in 1..(TIER3_CAP + 1) |->
                  IF i <= TIER3_CAP THEN Elem("", "", <<"a", " ", "P">>)
                  ELSE Elem("", "", <<"1", ",", "2", "1", "1", " ", "P">>)]]

AnyResultsPage ==
    /\ date_range \in {"", "January 2 - January 9, 2026"}
    /\ \E pg \in ResultsPages(MaxCards) \cup {LongResultsPage} :
          /\ cards = pg.cards
          /\ blocks = pg.blocks
          /\ nodes = pg.nodes
    /\ rows = <<>>
    /\ out = <<>>

EmptyResultsPage ==
    /\ date_range = ""
    /\ cards = <<>>
    /\ blocks = <<>>
    /\ nodes = <<>>
    /\ rows = <<>>
    /\ out = <<>>

\* the months a calendar is built from: every day enabled, none enabled,
\* the last three days disabled, only day 3 enabled, a 30-day month, and
\* months of 30 and of 28 days with no enabled day after the 28th
MonthKinds ==
    { Month(31, 1..31), Month(31, {}), Month(31, 1..28), Month(31, {3}), Month(30, 1..30),
      Month(30, 1..28), Month(28, 1..28) }

\* locals and history of the calendar code before pick_checkin_date is called
CalendarLocals ==
    /\ target_mb = -1
    /\ step = 0
    /\ start_mb = 0
    /\ try_no = 0
    /\ clicks = <<>>
    /\ next_clicks = 0
    /\ done_clicked = "no"
    /\ confirm_seen = FALSE
    /\ confirm_clicked = FALSE

\* any calendar of MaxMonths months showing one or two blocks, any target
\* month (0: a caption the calendar never shows), check-in day 1 or 28
AnyCalendar ==
    /\ cal_visible \in BOOLEAN
    /\ months \in [1..MaxMonths -> MonthKinds]
    /\ n_blocks \in {1, 2}
    /\ cal_first \in 1..(MaxMonths - n_blocks + 1)
    /\ locator_eq \in {"identity", "element"}
    /\ target \in 0..MaxMonths
    /\ day \in {1, 28}
    /\ CalendarLocals

\* CHECKIN_DAY of hicv_original_working.py
CHECKIN_DAY == 1

\* a closed overlay over fully enabled months, the target shown first
PlainCalendar ==
    /\ cal_visible = FALSE
    /\ months = [m \in 1..MaxMonths |-> Month(31, 1..31)]
    /\ n_blocks = 2
    /\ cal_first = 1
    /\ locator_eq = "identity"
    /\ target = 1
    /\ day = CHECKIN_DAY
    /\ CalendarLocals

\* no run in progress: the page shows the wanted guests, nothing is saved
NoRun ==
    /\ script = "member"
    /\ stage = "none"
    /\ trace = <<>>
    /\ shown = [adults |-> ADULTS, children |-> CHILDREN]
    /\ cur_count = 0
    /\ tries = 0
    /\ nights_field = 0
    /\ month_set = FALSE
    /\ year_set = FALSE
    /\ saved = <<>>
    /\ csv_file = NoFile
    /\ days = NIGHTS
    /\ total_days = 31
    /\ checkin_day = 1
    /\ all_rows = <<>>

(***************************************************************************)
(* The pages a whole run is checked on.                                    *)
(***************************************************************************)
\* location lists: Florida between two groups, fully rendered or still to
\* be scrolled to, and a list of MaxK Florida options that stops rendering
\* at its first header
RunLocationPages ==
    { [items |-> Layout(1, TRUE, 1, TRUE, 1), rendered |-> 6, lazy |-> "grows",
       sel |-> [id \in {"b1", "f1", "a1"} |-> FALSE]],
      [items |-> Layout(1, TRUE, 1, TRUE, 1), rendered |-> 1, lazy |-> "grows",
       sel |-> [id \in {"b1", "f1", "a1"} |-> id = "a1"]],
      [items |-> Layout(0, TRUE, MaxK, FALSE, 0), rendered |-> 1, lazy |-> "stuck",
       sel |-> [id \in OptionIdsOf(Layout(0, TRUE, MaxK, FALSE, 0)) |-> FALSE]] }

\* guest counters: any number of adults, no or one child
RunCounters ==
    { [adults |-> a, children |-> c] : a \in 0..MaxGuests, c \in {0, 1} }

\* unit panels: every option or all but the last, nothing or everything selected
RunUnitPanels ==
    UNION { { [n \in present |-> q] : q \in BOOLEAN } :
              present \in {UnitNames, UnitNames \ {"3+ Bedroom"}} }

\* calendars of two 31-day months: the target shown first; the target on
\* the next page; no enabled day in the first block; no enabled day at all
RunCalendars ==
    { [months |-> <<Month(31, 1..31), Month(31, 1..31)>>, n_blocks |-> 2, target |-> 1],
      [months |-> <<Month(31, 1..31), Month(31, 1..31)>>, n_blocks |-> 1, target |-> 2],
      [months |-> <<Month(31, {}), Month(31, 1..31)>>, n_blocks |-> 2, target |-> 1],
      [months |-> <<Month(31, {}), Month(31, {})>>, n_blocks |-> 2, target |-> 0] }

\* the calendars simple_monthly_scan opens: every day enabled, none enabled
SimpleCalendars ==
    { c \in RunCalendars : c.n_blocks = 2 /\ c.months[1] = c.months[2] }

\* results pages: nothing, a card, a points node
RunResultsPages ==
    LET e == Elem("Orange Lake", "Studio", <<"1", ",", "2", "1", "1", " ", "P">>)
    IN  { [cards |-> <<>>, blocks |-> <<>>, nodes |-> <<>>],
          [cards |-> <<e>>, blocks |-> <<>>, nodes |-> <<>>],
          [cards |-> <<>>, blocks |-> <<>>, nodes |-> <<e>>] }

\* the frame of a call: every local at its initial value
call_locals ==
    /\ attempt' = 0
    /\ tried' = <<>>
    /\ panel_open' = FALSE
    /\ loop_i' = 0
    /\ found_florida' = FALSE
    /\ all_ids' = {}
    /\ has_next' = FALSE
    /\ todo' = {}
    /\ cur' = "none"
    /\ newly_selected' = 0
    /\ confirmed' = 0
    /\ touched' = {}
    /\ injected' = {}
    /\ unit_i' = 0
    /\ final_selected' = <<>>
    /\ round' = 0
    /\ first_result' = {}
    /\ target_mb' = -1
    /\ step' = 0
    /\ start_mb' = 0
    /\ try_no' = 0
    /\ cur_count' = 0
    /\ tries' = 0
    /\ txt' = <<>>
    /\ pts' = <<>>
    /\ rows' = <<>>

\* the page as the called step s finds it
call_page(s) ==
    /\ IF s = "select_all_florida_locations"
       THEN \E pg \in RunLocationPages :
               /\ items' = pg.items
               /\ rendered' = Min(pg.rendered, Len(pg.items))
               /\ lazy' = pg.lazy
               /\ sel' = pg.sel
       ELSE UNCHANGED <<items, rendered, lazy, sel>>
    /\ IF s = "set_counter_adults"
       THEN shown' \in RunCounters
       ELSE UNCHANGED shown
    /\ IF s = "set_unit_sizes"
       THEN /\ desired_labels' = UNIT_SIZES
            /\ unit_sel' \in RunUnitPanels
       ELSE UNCHANGED <<desired_labels, unit_sel>>
    /\ IF s = "pick_checkin_date"
       THEN \E c \in RunCalendars :
               /\ cal_visible' = FALSE
               /\ months' = c.months
               /\ cal_first' = 1
               /\ n_blocks' = c.n_blocks
               /\ locator_eq' \in {"identity", "element"}
               /\ target' = c.target
               /\ day' = CHECKIN_DAY
       ELSE UNCHANGED <<calPage, calArgs>>
    /\ IF s = "scrape_results"
       THEN /\ \E pg \in RunResultsPages :
                  /\ cards' = pg.cards
                  /\ blocks' = pg.blocks
                  /\ nodes' = pg.nodes
            /\ date_range' = "January 2 - January 9, 2026"
       ELSE UNCHANGED resVars

\* scrape_availability_member, fill_booking_form: the previous step has
\* returned and the next one is called
call_next ==
    /\ script = "member"
    /\ stage # "save_rows"
    /\ pc = ReturnPc(stage)
    /\ stage' = StageAfter(stage)
    /\ pc' = EntryPc(stage')
    /\ trace' = trace \o (IF stage = "start" THEN <<>> ELSE <<Return(stage)>>)
                      \o <<Call(stage')>>
    /\ call_locals
    /\ call_page(stage')
    /\ UNCHANGED <<err, debug, out, calHist, confVars, script, nights_field,
                   month_set, year_set, fileVars, simpleVars>>

(***************************************************************************)
(* simple_monthly_scan.  Every step but the opening of the location list   *)
(* runs inside a try block whose handler prints and goes on.               *)
(***************************************************************************)
\* max_checkin_day = total_days - days + 1
max_checkin_day == total_days - days + 1

\* `range(1, min(6, max_checkin_day + 1))`: the first value the loop skips
DAY_LIMIT == 6
\* variant: the range stops at the day limit whatever the month holds
LoopEnd_day_limit_only == DAY_LIMIT

LoopEnd == Min(DAY_LIMIT, max_checkin_day + 1)

\* the selections a list of checkbox clicks can leave: an unselected option
\* of ids is clicked, which selects it unless the click fails
ClickedUnselected(ids) ==
    { q \in [DOMAIN sel -> BOOLEAN] :
        \A id \in DOMAIN sel :
            IF id \in ids /\ ~sel[id] THEN TRUE ELSE q[id] = sel[id] }

\* Step 5: open the list (a failure ends the run), click the checkbox of
\* every rendered option that is not selected, whatever its group
s_locations ==
    /\ pc = "s_locations"
    /\ \E opened \in BOOLEAN :
          IF opened
          THEN /\ panel_open' = TRUE
               /\ sel' \in ClickedUnselected(OptionIdsOf(Dom))
               /\ pc' = "s_adults"
               /\ err' = err
          ELSE /\ err' = "PlaywrightError: resorts dropdown"
               /\ pc' = "aborted"
               /\ UNCHANGED <<panel_open, sel>>
    /\ UNCHANGED <<debug, attempt, tried, pageVars, locVars, histVars, unitVars,
                   roundVars, notPanel>>

\* one pass of `while cur < ADULTS: plus_btn.click()`: the loop is left
\* when the counter shows the target or more, or when a call raises; a click
\* that went through may leave the displayed value as it was
s_counter(kind, goal, after) ==
    /\ \E raised \in BOOLEAN, acted \in BOOLEAN :
          IF raised \/ shown[kind] >= goal
          THEN /\ pc' = after
               /\ shown' = shown
          ELSE /\ shown' = IF acted THEN [shown EXCEPT ![kind] = Min(@ + 1, MaxGuests)]
                           ELSE shown
               /\ pc' = pc
    /\ cur_count' = shown'[kind]
    /\ UNCHANGED <<err, debug, tries, nights_field, month_set, year_set, notForm>>

\* Step 6, adults
s_set_adults ==
    /\ pc = "s_adults"
    /\ s_counter("adults", ADULTS, "s_children")

\* Step 6, children
s_set_children ==
    /\ pc = "s_children"
    /\ s_counter("children", CHILDREN, "s_units")

\* the unit selections after a click on the label of option n, if present
LabelClicked(u, n) ==
    IF n \in DOMAIN u THEN { [u EXCEPT ![n] = e] : e \in ClickEffects(u[n]) } ELSE {u}

\* Step 6, unit sizes: the labels of Studio and 1 Bedroom are clicked in
\* turn, whatever their state; a raise ends the step
s_unit_sizes ==
    /\ pc = "s_units"
    /\ \E reached \in 0..2 :
          unit_sel' \in
            CASE reached = 0 -> {unit_sel}
              [] reached = 1 -> LabelClicked(unit_sel, "Studio")
              [] OTHER -> UNION { LabelClicked(u, "1 Bedroom") :
                                    u \in LabelClicked(unit_sel, "Studio") }
    /\ pc' = "s_nights"
    /\ UNCHANGED <<err, debug, openVars, pageVars, sel, locVars, histVars,
                   desired_labels, unit_i, final_selected, roundVars, notPanel>>

\* Step 7, the loop header with d the next value of the range: the day
\* begins on the calendar the page then shows, or the loop is over
s_loop(d) ==
    /\ checkin_day' = d
    /\ IF d < LoopEnd
       THEN /\ pc' = "s_month_year"
            /\ \E c \in SimpleCalendars :
                  /\ months' = c.months
                  /\ n_blocks' = c.n_blocks
                  /\ target' = c.target
            /\ clicks' = <<>>
            /\ done_clicked' = "no"
            /\ confirm_clicked' = FALSE
       ELSE /\ pc' = "s_save"
            /\ UNCHANGED <<months, n_blocks, target, clicks, done_clicked, confirm_clicked>>
    /\ UNCHANGED <<cal_visible, cal_first, locator_eq, day, calLocals, next_clicks,
                   confirm_seen>>

\* Step 6, nights: fill NIGHTS, not the days the user entered; then the
\* first pass of the loop header
s_nights ==
    /\ pc = "s_nights"
    /\ nights_field' \in {nights_field, NIGHTS}
    /\ s_loop(1)
    /\ UNCHANGED <<err, debug, shown, cur_count, tries, month_set, year_set,
                   panelVars, scrapeVars, runCtl, fileVars, days, total_days, all_rows>>

\* the month and the year pickers, each in its own try block
s_month_year ==
    /\ pc = "s_month_year"
    /\ month_set' \in {month_set, TRUE}
    /\ year_set' \in {year_set, TRUE}
    /\ pc' = "s_date_picker"
    /\ UNCHANGED <<err, debug, shown, cur_count, tries, nights_field, notForm>>

\* the enabled cell the day loop clicks: the first in document order whose
\* text is the day, else the first enabled cell; day 0 when none is enabled
SimpleDayCell ==
    IF _find_day_btn_in_block(0, checkin_day) THEN [block |-> 0, day |-> checkin_day]
    ELSE IF _find_day_btn_in_block(1, checkin_day) THEN [block |-> 1, day |-> checkin_day]
    ELSE IF FirstEnabledIn(0) # 0 THEN [block |-> 0, day |-> FirstEnabledIn(0)]
    ELSE [block |-> 1, day |-> FirstEnabledIn(1)]

\* open the date picker, click one day cell, click Done; a raise before
\* Done skips the rest, a raise of the Done click is printed
s_date_picker ==
    /\ pc = "s_date_picker"
    /\ \E opened \in BOOLEAN, delivered \in BOOLEAN, done \in BOOLEAN :
          /\ clicks' = IF opened /\ delivered /\ SimpleDayCell.day # 0
                       THEN <<Click("start", SimpleDayCell.block, SimpleDayCell.day)>>
                       ELSE clicks
          /\ done_clicked' = IF opened /\ (delivered \/ SimpleDayCell.day = 0) /\ done
                             THEN "not_seen_enabled" ELSE done_clicked
    /\ pc' = "s_confirm"
    /\ UNCHANGED <<err, debug, calPage, calArgs, calLocals, next_clicks, confirm_seen,
                   confirm_clicked, notCal>>

\* Confirm Dates is clicked if the locator matches; a raise is printed
s_confirm ==
    /\ pc = "s_confirm"
    /\ \E present \in BOOLEAN, delivered \in BOOLEAN :
          confirm_clicked' = (present /\ delivered)
    /\ pc' = "s_wait_results"
    /\ UNCHANGED <<err, debug, calPage, calArgs, calLocals, calHist, done_clicked,
                   confirm_seen, notCal>>

\* the wait for "Modify Search": a timeout is printed
s_wait_results ==
    /\ pc = "s_wait_results"
    /\ pc' = "s_extract"
    /\ UNCHANGED <<err, debug, panelVars, scrapeVars, calVars, runVars>>

\* the row of one day
DayRow(d) == Row(<<d, d + days - 1>>, <<"Day", d>>, "Available", "Data found")

\* the extraction: one row when a resort or a points element is counted;
\* then the next pass of the loop header
s_extract ==
    /\ pc = "s_extract"
    /\ \E counted \in BOOLEAN :
          all_rows' = IF counted THEN Append(all_rows, DayRow(checkin_day)) ELSE all_rows
    /\ s_loop(checkin_day + 1)
    /\ UNCHANGED <<err, debug, panelVars, scrapeVars, runCtl, formVars, fileVars,
                   days, total_days>>

\* Step 8: the CSV is rewritten with all_rows when there are any
s_save ==
    /\ pc = "s_save"
    /\ saved' = IF all_rows # <<>> THEN all_rows ELSE saved
    /\ csv_file' = IF all_rows # <<>>
                   THEN [exists |-> TRUE, lines |-> <<HeaderLine>> \o DataLines(all_rows)]
                   ELSE csv_file
    /\ pc' = "done"
    /\ UNCHANGED <<err, debug, panelVars, scrapeVars, calVars, runCtl, formVars, simpleVars>>

(***************************************************************************)
(* Spec: one run of scrape_availability_member or of simple_monthly_scan.  *)
(***************************************************************************)
\* the stays and months simple_monthly_scan is asked for: five, two and no
\* check-in days
SimpleInputs == { <<NIGHTS, 31>>, <<30, 31>>, <<30, 28>> }

\* the form simple_monthly_scan starts on: a rendered list with the last
\* group selected, one or two adults, no unit size selected
SimpleForms ==
    { [page |-> [items |-> Layout(1, TRUE, 1, TRUE, 1), rendered |-> 6, lazy |-> "grows",
                 sel |-> [id \in {"b1", "f1", "a1"} |-> id = "a1"]],
       shown |-> c, unit_sel |-> [n \in UnitNames |-> FALSE]] :
        c \in { d \in RunCounters : d.children = 0 /\ d.adults \in {1, ADULTS} } }

InitMember ==
    /\ InitCtl("start")
    /\ PlainLocationPage
    /\ PlainUnitPanel
    /\ script = "member"
    /\ stage = "start"
    /\ shown = [adults |-> ADULTS, children |-> CHILDREN]
    /\ days = NIGHTS
    /\ total_days = 31

InitSimple ==
    /\ InitCtl("s_locations")
    /\ script = "simple"
    /\ stage = "none"
    /\ \E f \in SimpleForms :
          /\ items = f.page.items
          /\ rendered = f.page.rendered
          /\ lazy = f.page.lazy
          /\ sel = f.page.sel
          /\ shown = f.shown
          /\ unit_sel = f.unit_sel
    /\ desired_labels = UNIT_SIZES
    /\ \E asked \in SimpleInputs :
          /\ days = asked[1]
          /\ total_days = asked[2]

Init ==
    /\ InitLocals
    /\ NoParse
    /\ EmptyResultsPage
    /\ PlainCalendar
    /\ trace = <<>>
    /\ cur_count = 0
    /\ tries = 0
    /\ nights_field = 0
    /\ month_set = FALSE
    /\ year_set = FALSE
    /\ saved = <<>>
    /\ csv_file = NoFile
    /\ checkin_day = 1
    /\ all_rows = <<>>
    /\ \/ InitMember
       \/ InitSimple

Next ==
    \/ call_next
    \/ open_attempt
    \/ open_failed
    \/ find_florida_step
    \/ find_florida_failed
    \/ reveal_step
    \/ reveal_check
    \/ fl_next
    \/ fl_click
    \/ fl_poll
    \/ fl_inject
    \/ fl_finish
    \/ counter_begin
    \/ counter_step
    \/ counter_return
    \/ unit_open
    \/ unit_ensure
    \/ unit_click
    \/ unit_poll
    \/ unit_inject
    \/ unit_finish
    \/ fill_nights
    \/ pick_month
    \/ pick_year
    \/ open_calendar
    \/ cal_wait_ready
    \/ cal_search_step
    \/ cal_search_end
    \/ try_click_start
    \/ try_click_end
    \/ cal_fallback
    \/ finalize_done
    \/ finalize_confirm
    \/ click_confirm_dates
    \/ settle_results
    \/ wait_for_results
    \/ scrape_tier1
    \/ scrape_tier2
    \/ scrape_tier3
    \/ scrape_dedup
    \/ save_rows
    \/ s_locations
    \/ s_set_adults
    \/ s_set_children
    \/ s_unit_sizes
    \/ s_nights
    \/ s_month_year
    \/ s_date_picker
    \/ s_confirm
    \/ s_wait_results
    \/ s_extract
    \/ s_save

Spec == Init /\ [][Next]_vars

(***************************************************************************)
(* SpecPanel: the two multi-select panels, each reconciled MaxRounds times *)
(* from any page state.                                                    *)
(***************************************************************************)
InitPanel ==
    /\ NoRun
    /\ PlainCalendar
    /\ InitLocals
    /\ NoParse
    /\ EmptyResultsPage
    /\ \/ InitCtl("open_dropdown") /\ AnyLocationPage /\ PlainUnitPanel
       \/ InitCtl("unit_open") /\ PlainLocationPage /\ AnyUnitPanel

NextPanel ==
    \/ open_attempt
    \/ open_failed
    \/ find_florida_step
    \/ find_florida_failed
    \/ reveal_step
    \/ reveal_check
    \/ fl_next
    \/ fl_click
    \/ fl_poll
    \/ fl_inject
    \/ fl_finish
    \/ select_all_again
    \/ unit_open
    \/ unit_ensure
    \/ unit_click
    \/ unit_poll
    \/ unit_inject
    \/ unit_finish
    \/ set_unit_sizes_again

SpecPanel == InitPanel /\ [][NextPanel]_vars

(***************************************************************************)
(* SpecPoints: either parser applied to any text of at most MaxTextLen     *)
(* characters.                                                             *)
(***************************************************************************)
InitPoints ==
    /\ NoRun
    /\ PlainCalendar
    /\ InitCtl("parse")
    /\ InitLocals
    /\ PlainLocationPage
    /\ PlainUnitPanel
    /\ EmptyResultsPage
    /\ txt \in SeqsUpTo(Chars, MaxTextLen)
    /\ pts = <<>>

NextPoints ==
    \/ parse_clean_points
    \/ parse_points_from_text

SpecPoints == InitPoints /\ [][NextPoints]_vars

(***************************************************************************)
(* SpecScrape: scrape_results on any results page of at most MaxCards      *)
(* elements.                                                               *)
(***************************************************************************)
InitScrape ==
    /\ NoRun
    /\ PlainCalendar
    /\ InitCtl("scrape")
    /\ InitLocals
    /\ PlainLocationPage
    /\ PlainUnitPanel
    /\ NoParse
    /\ AnyResultsPage

NextScrape ==
    \/ scrape_tier1
    \/ scrape_tier2
    \/ scrape_tier3
    \/ scrape_dedup

SpecScrape == InitScrape /\ [][NextScrape]_vars

(***************************************************************************)
(* SpecCalendar: pick_checkin_date on any calendar.                        *)
(***************************************************************************)
InitCalendar ==
    /\ NoRun
    /\ InitCtl("open_calendar")
    /\ InitLocals
    /\ PlainLocationPage
    /\ PlainUnitPanel
    /\ NoParse
    /\ EmptyResultsPage
    /\ AnyCalendar

NextCalendar ==
    \/ open_calendar
    \/ cal_wait_ready
    \/ cal_search_step
    \/ cal_search_end
    \/ try_click_start
    \/ try_click_end
    \/ cal_fallback

SpecCalendar == InitCalendar /\ [][NextCalendar]_vars

(***************************************************************************)
(* SpecSave: up to MaxSaves calls of save_csv on one destination that is   *)
(* absent before the first call.                                           *)
(***************************************************************************)
\* the rows a call is given
SaveRows ==
    { Row("January 2 - January 9, 2026", "Orange Lake", "Studio", <<"1", "2">>),
      Row("January 2 - January 9, 2026", "Orange Lake", "1 Bedroom", <<"2", "1">>) }

InitSave ==
    /\ NoRun
    /\ PlainCalendar
    /\ InitCtl("save_csv")
    /\ InitLocals
    /\ PlainLocationPage
    /\ PlainUnitPanel
    /\ NoParse
    /\ EmptyResultsPage

\* one call save_csv(rows, CSV_PATH)
save_csv_call ==
    /\ pc = "save_csv"
    /\ Len(trace) < MaxSaves
    /\ \E rs \in SeqsUpTo(SaveRows, 2) :
          /\ csv_file' = save_csv(csv_file, rs)
          /\ saved' = saved \o rs
    /\ trace' = Append(trace, Call("save_csv"))
    /\ UNCHANGED <<ctlVars, panelVars, scrapeVars, calVars, script, stage, formVars,
                   simpleVars>>

NextSave ==
    \/ save_csv_call

SpecSave == InitSave /\ [][NextSave]_vars

(***************************************************************************)
(* Properties.                                                             *)
(***************************************************************************)
\* control is in the results scraping of either script
InScraping == stage = "scrape_results" \/ pc = "s_extract"

\* C1: results scraping (scrape_results, or the per-day extraction of
\* simple_monthly_scan) is reached only after the outer Confirm Dates
\* control was clicked while observed visible and enabled; a configuration
\* wait that times out aborts the run instead.
C1_ScrapeOnlyAfterConfirm ==
    InScraping => confirm_clicked

\* C2: for check-in day 28 in a 31-day block with NIGHTS = 7 the target end
\* day is 34 and, with two month blocks visible, the end cell clicked after
\* the start cell is day 3 of a block other than the start block.
C2_EndDayWraps ==
    /\ NIGHTS = 7 => TargetEnd(28) = 34
    /\ \A i \in 1..(Len(clicks) - 1) :
          ( /\ n_blocks = 2
            /\ clicks[i].role = "start"
            /\ clicks[i].day = 28
            /\ months[cal_first + clicks[i].block].len = 31
            /\ clicks[i + 1].role = "end" )
          => /\ clicks[i + 1].day = 3
             /\ clicks[i + 1].block # clicks[i].block

\* the unit-size options observed selected
UnitSelected == { n \in DOMAIN unit_sel : unit_sel[n] }

\* C3: exact subset convergence of set_unit_sizes. Whenever set_unit_sizes
\* has returned, the options observed selected are exactly the desired labels
\* and the read-back list names exactly them, whatever the initial selection
\* and whatever the clicks did.
C3_ExactSubsetConvergence ==
    pc = "unit_done" =>
        /\ UnitSelected = desired_labels
        /\ { final_selected[i] : i \in 1..Len(final_selected) } = desired_labels

\* C3 witness: desired {Studio, 1 Bedroom}; Studio, 1 Bedroom and 2 Bedroom are
\* the options that had to be flipped (so only 2 Bedroom was selected at the
\* start), one of them by injection; the function has returned
C3_Witness ==
    /\ pc = "unit_done"
    /\ round = 1
    /\ desired_labels = {"Studio", "1 Bedroom"}
    /\ touched = {"Studio", "1 Bedroom", "2 Bedroom"}
    /\ "2 Bedroom" \in injected
    /\ final_selected = <<"Studio", "1 Bedroom">>
    /\ ~unit_sel["2 Bedroom"]

\* the selection a completed reconcile step leaves behind
ReconciledSelection ==
    IF pc = "unit_done" THEN UnitSelected ELSE { id \in DOMAIN sel : sel[id] }

\* C4: idempotent reconciliation. When a reconcile step (set_unit_sizes, or
\* the select-all of select_all_florida_locations) has completed a second
\* time in a row, the selected set is the one its first completion left.
C4_IdempotentReconcile ==
    (pc \in {"unit_done", "fl_done"} /\ round >= 2) => ReconciledSelection = first_result

\* C4 witness: a second run has completed after a first run that had to
\* change options, by click and by injection
C4_Witness ==
    /\ pc \in {"unit_done", "fl_done"}
    /\ round = 2
    /\ injected # {}
    /\ touched # injected
    /\ first_result # {}

\* the options that follow the Florida header up to the next group header
FloridaOptionsOf(list) ==
    LET h == FindIndex(list, FLORIDA_HEADER)
    IN  IF h = 0 THEN {}
        ELSE { list[i].id : i \in { j \in (h + 1)..Len(list) :
                   \A m \in (h + 1)..j : list[m].kind = "option" } }

\* the rendered list shows the Florida header and a group header after it
NextGroupRendered ==
    \E h \in 1..rendered, g \in 1..rendered :
        h < g /\ items[h].id = FLORIDA_HEADER /\ items[g].kind = "group"

\* C5: group selection completeness. Only options under the Florida header
\* are ever clicked or state-injected, and when the function has completed on
\* a list that renders the header, its options and the next group header,
\* every option under the header is selected.
C5_GroupSelectionComplete ==
    /\ (touched \cap OptionIdsOf(items)) \subseteq FloridaOptionsOf(items)
    /\ all_ids \subseteq FloridaOptionsOf(items)
    /\ (pc = "fl_done" /\ NextGroupRendered) =>
           /\ all_ids = FloridaOptionsOf(items)
           /\ \A id \in FloridaOptionsOf(items) : sel[id]

\* C5 witness: the function completed on a list with options before the
\* header and after the next header, having changed both Florida options
C5_Witness ==
    /\ pc = "fl_done"
    /\ NextGroupRendered
    /\ "b1" \in DOMAIN sel /\ "a1" \in DOMAIN sel
    /\ ~sel["b1"] /\ ~sel["a1"]
    /\ touched = {"f1", "f2"}

\* the six strategies in their priority order
StrategyOrder ==
    <<"click", "force_click", "dblclick", "focus_enter", "focus_space", "dispatch_click">>

\* the strategies attempted so far are a prefix of the fixed order, one per
\* iteration, and the function has returned right after the one that opened
\* the panel
TriedInOrder ==
    /\ Len(tried) <= Len(StrategyOrder)
    /\ tried = SubSeq(StrategyOrder, 1, Len(tried))
    /\ pc = "open_dropdown" => Len(tried) = attempt
    /\ panel_open => (pc # "open_dropdown" /\ Len(tried) = attempt + 1)

\* C6: strategy priority in open_resorts_dropdown. The strategies attempted
\* are always a prefix of the fixed order native click, forced click,
\* double-click, focus+Enter, focus+Space, synthetic click; once the panel
\* was observed visible after strategy k the function has returned with
\* exactly k+1 strategies attempted, and no strategy is attempted while the
\* panel is visible.
C6_StrategyPriority ==
    /\ []TriedInOrder
    /\ [][panel_open => tried' = tried]_vars

\* C6 witness: the native click opened the panel, one strategy attempted
C6_Witness ==
    /\ panel_open
    /\ tried = <<"click">>
    /\ pc = "find_florida"

\* index of the first occurrence of r in rs
FirstIndexOf(rs, r) == CHOOSE i \in 1..Len(rs) : rs[i] = r /\ \A j \in 1..(i - 1) : rs[j] # r

\* C7: deduplication in scrape_results. The returned list holds no two rows
\* equal on (Date Range, Resort, Room, Points), holds every collected row
\* exactly once, and keeps the rows in the order of their first occurrence.
C7_Deduplicated ==
    pc = "scraped" =>
        /\ \A i, j \in 1..Len(out) : out[i] = out[j] => i = j
        /\ { out[i] : i \in 1..Len(out) } = { rows[i] : i \in 1..Len(rows) }
        /\ \A i, j \in 1..Len(out) :
               i < j => FirstIndexOf(rows, out[i]) < FirstIndexOf(rows, out[j])

\* C7 witness: three rows were collected, the third repeating the first, with
\* a row between them that differs from them only in the points value; two
\* rows are returned
C7_Witness ==
    /\ pc = "scraped"
    /\ Len(rows) = 3
    /\ rows[1] = rows[3]
    /\ rows[1] # rows[2]
    /\ rows[1].Resort = rows[2].Resort /\ rows[1].Room = rows[2].Room
    /\ out = <<rows[1], rows[2]>>

\* the first run of digits and commas that holds a digit and is followed,
\* after optional blanks, by the word "points"; <<"none">> without one
NumberBeforePoints(t) ==
    LET Hit(i) == /\ PointsPatternAt(t, i) # <<>>
                  /\ (i = 1 \/ ~IsDigitOrComma(t[i - 1]))
                  /\ \E k \in i..PointsPatternAt(t, i)[2] : t[k] \in Digits
    IN  IF \E i \in 1..Len(t) : Hit(i)
        THEN LET i == CHOOSE k \in 1..Len(t) : Hit(k) /\ \A j \in 1..(k - 1) : ~Hit(j)
             IN  SubSeq(t, i, PointsPatternAt(t, i)[2])
        ELSE <<"none">>

\* the value the claim gives a text
StatedPoints(t) ==
    IF NumberBeforePoints(t) # <<"none">> THEN RemoveCommas(NumberBeforePoints(t))
    ELSE IF SearchNumber(t) # <<"none">> THEN RemoveCommas(SearchNumber(t))
    ELSE <<>>

\* C8: points parsing. Both parsers return the digits of the first number
\* (digits with optional thousands separators) that is followed by the word
\* "points"; without one, the first grouped or 4+ digit number; without
\* either, the empty string.
C8_PointsParsed ==
    pc \in {"parsed", "parsed_clean"} => pts = StatedPoints(txt)

\* C9: in a run of scrape_availability_member the calendar flow goes from
\* the overlay to the day clicks, the inner Done and the outer Confirm in
\* that order: Done and Confirm are clicked only after two day cells, Confirm
\* only after finalize_dates_in_picker saw it enabled, and the run ends
\* Confirmed or in an aborting error.
C9_CalendarOrder ==
    script = "member" =>
        /\ done_clicked # "no" => Len(clicks) >= 2
        /\ confirm_seen => Len(clicks) >= 2
        /\ confirm_clicked => confirm_seen
        /\ stage \in {"settle_results", "wait_for_results", "scrape_results", "save_rows"}
              => confirm_clicked

\* the configuration steps in the order of the claim
ConfigSteps ==
    << "select_all_florida_locations", "set_counter_adults", "set_counter_children",
       "set_unit_sizes", "fill_nights", "pick_month", "pick_year", "pick_checkin_date",
       "finalize_dates_in_picker", "click_confirm_dates" >>

IsCall(e) == e[1] = "call"

\* C10: the configuration steps are called in the order location selection,
\* adults, children, unit sizes, nights, month, year, date range, confirm;
\* each call but the first directly follows the return of the step called
\* before it; scrape_results is called after all of them have returned.
\* The trace grows only in call_next, which ends it with a call: every call
\* of a run is the last event of the state call_next leads to, so the second
\* and third conjunct are stated of the last event.
C10_ConfigurationOrder ==
    script = "member" =>
        LET calls == SelectSeq(trace, IsCall)
            n == Len(trace)
        IN  /\ \A i \in 1..Min(Len(calls), Len(ConfigSteps)) : calls[i][2] = ConfigSteps[i]
            /\ n >= 1 => IsCall(trace[n])
            /\ n >= 2 =>
                  /\ ~IsCall(trace[n - 1])
                  /\ \E j \in 1..(n - 2) :
                        /\ trace[j] = Call(trace[n - 1][2])
                        /\ \A k \in (j + 1)..(n - 2) : ~IsCall(trace[k])
            /\ (n >= 1 /\ trace[n] = Call("scrape_results")) =>
                  \A c \in 1..Len(ConfigSteps) :
                      \E j \in 1..(n - 1) :
                          /\ trace[j] = Call(ConfigSteps[c])
                          /\ \E k \in (j + 1)..(n - 1) : trace[k] = Return(ConfigSteps[c])

\* scrape_results has been called in a run of scrape_availability_member
C10_Witness ==
    /\ script = "member"
    /\ pc = "scrape"
    /\ \E i \in 1..Len(trace) : trace[i] = Call("scrape_results")
    /\ Len(SelectSeq(trace, IsCall)) = Len(ConfigSteps) + 3

\* C11: no failure of the click strategies on one option (label click,
\* forced label click, forced list-item click) leaves the reconcile loop of
\* select_all_florida_locations or of ensure_state as an exception.
C11_ToggleNeverThrows ==
    err # "PlaywrightError: li.click"

\* the errors with which a configuration step gives up
FatalConfigErrors ==
    { "TimeoutError: Location listbox did not appear",
      "Exception: Couldn't find the Florida group header",
      "Exception: Florida group found, but no Florida options were rendered",
      "RuntimeError: Could not select year",
      "RuntimeError: Could not open the check-in calendar overlay",
      "RuntimeError: Calendar overlay did not finish rendering",
      "RuntimeError: No enabled dates to select a range",
      "RuntimeError: Confirm Dates (outer) did not enable" }

\* C12: whenever a configuration step has raised one of its fatal errors, a
\* screenshot or a markup dump was written before.
C12_FatalHasSnapshot ==
    (script = "member" /\ pc = "aborted" /\ err \in FatalConfigErrors) => debug # {}

\* C13: a failing screenshot or dump never replaces the intended error on
\* a fatal path, and never makes scrape_results raise on the empty-results
\* path.
C13_DiagnosticsNeverBlock ==
    err # "PlaywrightError: page.screenshot"

\* C14: when the three tiers yield no row, scrape_results writes the
\* no_results_debug snapshot and returns the empty list without raising,
\* and the run ends with no row handed to the save.
C14_EmptyIsNotAnError ==
    script = "member" =>
        /\ (stage = "scrape_results" /\ pc \in {"scraped", "aborted"} /\ rows = <<>>)
              => (pc = "scraped" /\ out = <<>> /\ "no_results_debug" \in debug)
        /\ (pc = "done" /\ out = <<>>) => saved = <<>>

\* C15: every row scrape_results returns has a non-empty Resort, Room or
\* Points, whichever tier produced it.
C15_CandidateInvariant ==
    pc = "scraped" =>
        \A i \in 1..Len(out) :
            out[i].Resort # "" \/ out[i].Room # "" \/ out[i].Points # <<>>

\* scrape_results returned a tier-3 row with only a points value, from a
\* page that also held an element with no resort, room or points
C15_Witness ==
    /\ pc = "scraped"
    /\ cards # <<>>
    /\ \A i \in 1..Len(cards) : cards[i] = Elem("", "", <<>>)
    /\ \E i \in 1..Len(out) :
          out[i].Resort = "" /\ out[i].Room = "" /\ out[i].Points # <<>>

\* C16: after any sequence of save_csv calls on a destination that was
\* absent before the first, the file holds the header row once, as its
\* first row, followed by every data row passed, in call order.
C16_HeaderOnce ==
    trace # <<>> =>
        /\ csv_file.exists
        /\ csv_file.lines # <<>>
        /\ csv_file.lines[1] = HeaderLine
        /\ \A i \in 2..Len(csv_file.lines) : ~csv_file.lines[i].header
        /\ [i \in 1..(Len(csv_file.lines) - 1) |-> csv_file.lines[i + 1].row] = saved

\* three calls that passed two different rows in all
C16_Witness ==
    /\ Len(trace) = 3
    /\ Len(csv_file.lines) = 3
    /\ csv_file.lines[2] # csv_file.lines[3]
    /\ saved = <<csv_file.lines[2].row, csv_file.lines[3].row>>

\* C17: in a run of scrape_availability_member an inner Done control is
\* clicked only after it was observed enabled.
C17_DoneOnlyWhenEnabled ==
    script = "member" => done_clicked # "not_seen_enabled"

\* C18: finalize_dates_in_picker returns only after a Confirm candidate was
\* observed visible and enabled; otherwise it has dumped the markup, taken
\* the screenshot and raised its RuntimeError.
C18_OuterConfirmObserved ==
    stage = "finalize_dates_in_picker" =>
        /\ pc = "finalized" => confirm_seen
        /\ (pc = "aborted" /\ err # "PlaywrightError: done.click")
              => /\ err = "RuntimeError: Confirm Dates (outer) did not enable"
                 /\ {"confirm_area_dump", "confirm_disabled"} \subseteq debug

\* C19: whenever set_counter(kind, target) has returned, the counter of
\* that kind displays target.
C19_CounterConverged ==
    pc = "counter_done" => shown[CounterKind] = CounterTarget

\* the start cell is clicked, the start block offers no end cell, another
\* block is looked at and the target end day lies beyond the last day of
\* the start month
EndInOtherBlock ==
    /\ pc = "try_end"
    /\ ~_find_day_btn_in_block(start_mb, TargetEnd(day))
    /\ _first_enabled_after(start_mb, day) = 0
    /\ BlockExists(OtherBlock(start_mb))
    /\ OtherBlock(start_mb) # start_mb
    /\ TargetEnd(day) > months[cal_first + start_mb].len

\* C20: when the end day overflows the start month and the start block has
\* no end cell, the day looked up in the other block is the target end day
\* minus the number of days of the start month.
C20_WrappedEndDay ==
    EndInOtherBlock =>
        WrappedDay(TargetEnd(day)) = TargetEnd(day) - months[cal_first + start_mb].len

\* the fatal error of the degraded range selection
NoDatesError == "RuntimeError: No enabled dates to select a range"

\* pick_checkin_date has ended in its last resort, after both range attempts
FallbackTaken ==
    \/ pc = "picked" /\ clicks # <<>> /\ clicks[Len(clicks)].role = "second"
    \/ pc = "aborted" /\ err \in { NoDatesError, "PlaywrightError: page.screenshot",
                                  "PlaywrightError: all_enabled.click" }

\* C21: pick_checkin_date raises 'No enabled dates to select a range' if and
\* only if no start/end pair was formed and fewer than two enabled day cells
\* exist across the visible blocks; with at least two enabled cells the last
\* resort clicks the first two of them and the function returns normally.
C21_RangeDegradation ==
    /\ err = NoDatesError =>
          /\ Len(AllEnabled) < 2
          /\ \A i \in 1..Len(clicks) : clicks[i].role # "end"
    /\ FallbackTaken =>
          IF Len(AllEnabled) < 2
          THEN pc = "aborted" /\ err = NoDatesError
          ELSE /\ pc = "picked"
               /\ SubSeq(clicks, Len(clicks) - 1, Len(clicks)) =
                     << Click("first", AllEnabled[1].block, AllEnabled[1].day),
                        Click("second", AllEnabled[2].block, AllEnabled[2].day) >>

\* one of the first two visible blocks carries the target caption
TargetVisible == \E b \in 0..(Min(2, n_blocks) - 1) : cal_first + b = target

\* C22: the next-month control is clicked at most 12 times, never while it
\* reports aria-disabled, never while one of the first two visible blocks
\* carries the target caption (so not at all when one does from the start,
\* and not again once one has been observed); when the search ends with a
\* match, the block handed to the range selection carries the target caption.
C22_MonthSearchBound ==
    /\ [](next_clicks <= MONTH_STEPS)
    /\ [][next_clicks' # next_clicks =>
             /\ next_clicks' = next_clicks + 1
             /\ ~NextDisabled
             /\ ~TargetVisible]_vars
    /\ []((pc = "try_start" /\ try_no = 1 /\ TargetVisible) => cal_first + start_mb = target)

\* the search used all 12 steps and the last one brought up the target month,
\* which the range selection starts in
C22_Witness ==
    /\ pc = "try_start"
    /\ try_no = 1
    /\ next_clicks = MONTH_STEPS
    /\ cal_first + start_mb = target

\* pick_checkin_date is past a call of _wait_calendar_ready
PastReadyWait ==
    \/ pc \in {"search_done", "try_start", "try_end", "fallback", "picked"}
    \/ pc = "search"
    \/ pc = "aborted" /\ err \in { NoDatesError, "PlaywrightError: page.screenshot",
                                  "PlaywrightError: all_enabled.click",
                                  "PlaywrightError: start_btn.click",
                                  "PlaywrightError: end_btn.click" }

\* C23: pick_checkin_date is past a readiness wait, the first one or the one
\* after a next-month step, only if a caption and an enabled day button were
\* there to observe; when they were not, it has raised 'did not finish
\* rendering', and then no day cell has been clicked.
C23_ReadinessGatesSelection ==
    /\ PastReadyWait => CalendarReady
    /\ clicks # <<>> => CalendarReady
    /\ err = "RuntimeError: Calendar overlay did not finish rendering" => clicks = <<>>

\* C24: _wait_calendar_ready reports an unsatisfied predicate by returning
\* False and never by raising, an overlay that never becomes visible included.
C24_ExhaustionIsAValue ==
    err # "TimeoutError: overlay.wait_for"

\* what each tier of scrape_results produces on the page
Tier1Rows == CandidateRows(cards, date_range)
Tier2Rows == CandidateRows(FilterPoints(blocks), date_range)
Tier3Rows == PointsRows(SubSeq(nodes, 1, Min(TIER3_CAP, Len(nodes))), date_range)

\* C25: the rows of scrape_results are those of tier 1 when it produced any,
\* else those of tier 2 when it produced any, else those of tier 3, which
\* looks at the first 60 nodes at most: a later tier adds nothing to the rows
\* of an earlier one.
C25_TierCascade ==
    /\ pc = "scrape_tier2" => rows = Tier1Rows
    /\ pc = "scrape_tier3" => rows = (IF Tier1Rows # <<>> THEN Tier1Rows ELSE Tier2Rows)
    /\ pc \in {"scrape_dedup", "scraped"} =>
          /\ rows = (IF Tier1Rows # <<>> THEN Tier1Rows
                     ELSE IF Tier2Rows # <<>> THEN Tier2Rows ELSE Tier3Rows)
          /\ (Tier1Rows = <<>> /\ Tier2Rows = <<>>) =>
                \A i \in 1..Len(rows) :
                    \E n \in 1..Min(60, Len(nodes)) :
                        PointsRows(<<nodes[n]>>, date_range) = <<rows[i]>>

\* scrape_results returned the rows of tier 2 from a page on which tier 1
\* produced nothing and tier 3 would have produced a row
C25_Witness ==
    /\ pc = "scraped"
    /\ Tier1Rows = <<>>
    /\ Tier2Rows # <<>>
    /\ Tier3Rows # <<>>
    /\ rows = Tier2Rows

\* C26: every polling or retry loop of both scripts ends after a fixed number
\* of iterations, whatever the page does.  Each iteration uses up part of the
\* loop's budget: no iteration of the strategy loop, the header and reveal
\* scans, the per-option state polls, the counter loops or the month search
\* can leave every variable, the loop's own counter included, as it was, for
\* such an iteration can be repeated for ever on a page that never changes.
C26_BoundedWaiting ==
    /\ ~ENABLED (open_attempt /\ UNCHANGED vars)
    /\ ~ENABLED (find_florida_step /\ UNCHANGED vars)
    /\ ~ENABLED (reveal_step /\ UNCHANGED vars)
    /\ ~ENABLED (fl_poll /\ UNCHANGED vars)
    /\ ~ENABLED (unit_poll /\ UNCHANGED vars)
    /\ ~ENABLED (counter_step /\ UNCHANGED vars)
    /\ ~ENABLED (cal_search_step /\ UNCHANGED vars)
    /\ ~ENABLED (s_set_adults /\ UNCHANGED vars)
    /\ ~ENABLED (s_set_children /\ UNCHANGED vars)

\* the error open_resorts_dropdown raises when no strategy opened the panel
ListboxError == "TimeoutError: Location listbox did not appear"

\* C27: open_resorts_dropdown has returned only with the panel observed
\* visible after one of the six strategies; when all six were attempted and
\* none made it visible the open_dropdown_failed snapshot is written and
\* TimeoutError raised, and that error is raised only after all six
\* strategies have been attempted.
C27_OpenExhaustionFatal ==
    /\ pc \in {"find_florida", "reveal", "reveal_done", "fl_loop"} =>
          /\ panel_open
          /\ tried # <<>>
          /\ tried[Len(tried)] = StrategyOrder[Len(tried)]
    /\ (attempt = OPEN_ATTEMPTS /\ pc # "open_dropdown") =>
          /\ pc = "aborted"
          /\ err = ListboxError
          /\ "open_dropdown_failed" \in debug
    /\ err = ListboxError =>
          /\ tried = StrategyOrder
          /\ ~panel_open
          /\ "open_dropdown_failed" \in debug

\* all six strategies were attempted without the panel showing up and the
\* function has raised
C27_Witness ==
    /\ pc = "aborted"
    /\ err = ListboxError
    /\ Len(tried) = OPEN_ATTEMPTS

\* the two errors of the group reveal
HeaderError == "Exception: Couldn't find the Florida group header"
NoOptionsError == "Exception: Florida group found, but no Florida options were rendered"

\* C28: select_all_florida_locations goes past the header search only with
\* the header found and into the reconcile loop only with options collected;
\* it raises after 60 scroll steps without the header, or after 80 rescans
\* without an option, each time with the debug snapshot written and with no
\* option clicked or injected.
C28_GroupRevealFailure ==
    /\ pc \in {"reveal", "reveal_done"} => found_florida
    /\ pc \in {"fl_loop", "fl_click", "fl_poll", "fl_inject", "fl_done"} =>
          (found_florida /\ all_ids # {})
    /\ err = HeaderError =>
          /\ ~found_florida
          /\ loop_i = HEADER_SCROLLS
          /\ "location_panel_no_florida" \in debug
          /\ touched = {} /\ injected = {}
    /\ err = NoOptionsError =>
          /\ found_florida
          /\ all_ids = {}
          /\ loop_i = REVEAL_SCANS
          /\ "location_panel_after" \in debug
          /\ touched = {} /\ injected = {}

\* the header was found, 80 rescans collected no option, the function raised
C28_Witness ==
    /\ pc = "aborted"
    /\ err = NoOptionsError
    /\ loop_i = REVEAL_SCANS
    /\ FindIndex(Dom, FLORIDA_HEADER) > 0

\* C29: the rescan loop of select_all_florida_locations runs at most 80
\* times, the accumulated id set only grows, the loop is left before the
\* 80th scan only on a next-group header seen with a non-empty id set, and a
\* scan after the first that adds no id to a non-empty set ends the loop.
C29_RevealStabilises ==
    /\ [](pc \in {"reveal", "reveal_done"} => loop_i <= REVEAL_SCANS)
    /\ [][(pc = "reveal" /\ pc' \in {"reveal", "reveal_done"}) => all_ids \subseteq all_ids']_vars
    /\ [][(pc = "reveal" /\ pc' = "reveal_done") => (has_next' /\ all_ids' # {})]_vars
    /\ [][(pc = "reveal" /\ loop_i >= 1 /\ all_ids # {} /\ loop_i' = loop_i + 1)
              => all_ids' # all_ids]_vars

\* C30: the reconcile loops click or inject an option only when its observed
\* aria-selected differs from the desired state (selected for a Florida
\* option, membership in desired_labels for a unit size); only such an option
\* changes state, and an option that is not in the panel is never acted on.
C30_MatchingUntouched ==
    /\ [](pc \in {"fl_click", "fl_inject"} => ~sel[cur])
    /\ [](pc \in {"unit_click", "unit_inject"} =>
             unit_sel[options[unit_i]] # should_select)
    /\ [](touched \subseteq (DOMAIN sel \cup DOMAIN unit_sel))
    /\ [][/\ \A o \in (touched' \ touched) \cup (injected' \ injected) :
                IF o \in DOMAIN sel THEN ~sel[o]
                ELSE unit_sel[o] # (o \in desired_labels)
          /\ \A o \in DOMAIN sel : sel'[o] # sel[o] => ~sel[o]
          /\ DOMAIN unit_sel' = DOMAIN unit_sel
          /\ \A o \in DOMAIN unit_sel :
                unit_sel'[o] # unit_sel[o] => unit_sel[o] # (o \in desired_labels)]_vars

\* set_unit_sizes is through with its options on a panel that lacks one of
\* them: it acted on some option and left a matching one alone
C30_Witness ==
    /\ pc = "aborted"
    /\ err = "TimeoutError: li.get_attribute"
    /\ DOMAIN unit_sel # UnitNames
    /\ touched # {}
    /\ touched # DOMAIN unit_sel

\* C31: the direct state injection of an option is reached only after a
\* click on it was issued and 12 polls of its aria-selected did not show the
\* desired state; a poll that shows the desired state never leads to it, and
\* after the injection the option's aria-selected is the desired state.
C31_InjectionLastResort ==
    /\ [](pc = "fl_inject" =>
             (cur \in touched /\ loop_i = STATE_POLLS /\ ~sel[cur]))
    /\ [](pc = "unit_inject" =>
             /\ options[unit_i] \in touched
             /\ loop_i = STATE_POLLS
             /\ unit_sel[options[unit_i]] # should_select)
    /\ [][(pc = "fl_poll" /\ sel[cur]) => pc' # "fl_inject"]_vars
    /\ [][(pc = "unit_poll" /\ unit_sel[options[unit_i]] = should_select)
              => pc' # "unit_inject"]_vars
    /\ [][(injected' # injected) => pc \in {"fl_inject", "unit_inject"}]_vars
    /\ [][pc = "fl_inject" => sel'[cur]]_vars
    /\ [][pc = "unit_inject" => unit_sel'[options[unit_i]] = should_select]_vars

\* a Florida option was clicked, stayed unselected over the 12 polls and was
\* selected by the injection
C31_Witness ==
    /\ pc = "fl_loop"
    /\ cur \in injected
    /\ loop_i = STATE_POLLS
    /\ sel[cur]

StartedSelected ==
    { id \in DOMAIN sel : \E f \in SimpleForms : f.page.sel[id] }

\* C33: once Step 5 of simple_monthly_scan is over, every option that the
\* step selected lies under the Florida heading: an option of another group
\* is selected only if the form started with it selected.
C33_SimpleGroupSelection ==
    (script = "simple" /\ pc # "s_locations") =>
        \A id \in OptionIdsOf(items) \ FloridaOptionsOf(items) :
            sel[id] => id \in StartedSelected

\* C34: in simple_monthly_scan the number of nights typed into the booking
\* form is the stay length the user entered, the one the Date Range label of
\* every row is computed from.
C34_StayLengthConsistent ==
    (script = "simple" /\ nights_field # 0) => nights_field = days

\* the positions of simple_monthly_scan inside the body of the day loop
InDayLoop == pc \in {"s_month_year", "s_date_picker", "s_confirm", "s_wait_results", "s_extract"}

\* C35: in simple_monthly_scan every check-in day visited lies in
\* 1..min(5, total_days - days + 1), the Date Range of every row ends on or
\* before the last day of the month, at most five rows are emitted, and no
\* day is visited when the stay is longer than the month.
C35_ScanRangeInsideMonth ==
    script = "simple" =>
        /\ InDayLoop =>
               /\ 1 <= checkin_day
               /\ checkin_day <= Min(5, total_days - days + 1)
        /\ \A i \in 1..Len(all_rows) :
               /\ 1 <= all_rows[i].Date_Range[1]
               /\ all_rows[i].Date_Range[2] <= total_days
        /\ Len(all_rows) <= 5
        /\ days > total_days => (~InDayLoop /\ all_rows = <<>>)

\* C35 witness: a stay of 30 days in a 31-day month was scanned to the end,
\* both check-in days gave a row and the last row ends on day 31
C35_Witness ==
    /\ script = "simple"
    /\ pc = "s_save"
    /\ days = 30 /\ total_days = 31
    /\ Len(all_rows) = 2
    /\ all_rows[2].Date_Range = <<2, 31>>

\* during the first call of select_all_florida_locations the options the
\* reconcile loop has clicked or injected, and those it found selected
ActedOn == touched \cap all_ids
FoundSelected == (all_ids \ todo) \ touched

\* C36: when select_all_florida_locations has completed, 0 <= newly_selected
\* <= confirmed <= the number of discovered options; on the first call,
\* confirmed is the number of options found already selected plus
\* newly_selected, and newly_selected never exceeds the number of options the
\* loop has acted on (no option is counted twice).
C36_ReconciliationCounters ==
    /\ pc = "fl_done" =>
           /\ 0 <= newly_selected
           /\ newly_selected <= confirmed
           /\ confirmed <= Cardinality(all_ids)
    /\ (pc = "fl_done" /\ round = 1) =>
           confirmed = Cardinality(FoundSelected) + newly_selected
    /\ (pc \in {"fl_loop", "fl_done"} /\ round <= 1) =>
           newly_selected <= Cardinality(ActedOn)

\* C36 witness: the first call completed on two Florida options, one found
\* selected and skipped, the other selected by the loop
C36_Witness ==
    /\ pc = "fl_done"
    /\ round = 1
    /\ all_ids = {"f1", "f2"}
    /\ Cardinality(FoundSelected) = 1
    /\ newly_selected = 1
    /\ confirmed = 2

====
